---- MODULE Spec2Model ----
(***************************************************************************)
(* A model of the two deterministic subsystems of the repository:          *)
(*   - the structural JSON differ (backend/json_compare.py and its copy in *)
(*     backend/json_pdf_report.py): flatten_json, compare_values,          *)
(*     compare_jsons;                                                      *)
(*   - the declarative trade-data mapper (backend/mapping_program.py):     *)
(*     TradeDataMapper.transform_csv_to_json and everything it calls.      *)
(*                                                                         *)
(* Python values are tagged records [t |-> <type name>, v |-> <payload>];  *)
(* t is what type(x).__name__ gives.  A dict is the sequence of its        *)
(* <<key, value>> items in insertion order (keys distinct), a list the     *)
(* sequence of its elements.  A string that the program takes apart or     *)
(* orders (a flattened path) is the sequence of its characters.            *)
(***************************************************************************)
EXTENDS Integers, Sequences, FiniteSets, TLC

VARIABLES
    \* ---- differ ----
    json1,          \* first document handed to compare_jsons
    json2,          \* second document handed to compare_jsons
    differences,    \* list returned by the last json_compare.compare_jsons call
    stats,          \* json_compare.JSONComparator.stats
    pdfDifferences, \* list returned by the last json_pdf_report.compare_jsons call
    pdfStats,       \* json_pdf_report.JSONComparator.stats
    translations,   \* JSONComparator.translations (the same file for both)
    calls,          \* compare_jsons calls made so far, on either comparator
    \* ---- mapper ----
    mapper,         \* the TradeDataMapper: [config, source]
    rows,           \* trades_data, the rows _read_csv returned
    idx,            \* position of the loop of transform_csv_to_json in rows
    returned,       \* what _transform_single_trade returned for each row visited
    transformed_trades, \* the accumulator list of transform_csv_to_json
    log,            \* the records logger.error was given
    output,         \* the document _write_json wrote, None before
    pc,             \* where the run is: main, loop, done, raised, exited
    \* ---- single calls ----
    rule,           \* field_config handed to _process_field_mapping
    record,         \* trade_row handed to it
    context,        \* **context handed to it
    resolved,       \* what the call returned or raised
    raw,            \* value handed to _apply_transformation
    kind,           \* transformation_type handed to it
    converted,      \* what the call returned or raised
    asked,          \* path handed to get_friendly_description
    label,          \* what json_compare's get_friendly_description returned
    pdfLabel,       \* what json_pdf_report's get_friendly_description returned
    \* ---- command-line runs ----
    argv,           \* the program run and what its file arguments name
    exit_status     \* the exit status of the process, None while it runs

diffVars == <<json1, json2, differences, stats, pdfDifferences, pdfStats,
              translations, calls>>
mapVars == <<mapper, rows, idx, returned, transformed_trades, log, output, pc>>
callVars == <<rule, record, context, resolved, raw, kind, converted, asked, label,
              pdfLabel>>
mainVars == <<argv, exit_status>>
vars == <<json1, json2, differences, stats, pdfDifferences, pdfStats,
          translations, calls,
          mapper, rows, idx, returned, transformed_trades, log, output, pc,
          rule, record, context, resolved, raw, kind, converted, asked, label,
          pdfLabel, argv, exit_status>>

(***************************************************************************)
(* Bounds of the model.                                                    *)
(***************************************************************************)
MaxArr == 2     \* longest JSON array in a generated document
MaxCalls == 2   \* compare_jsons calls made on the comparator instances
MaxRows == 2    \* rows of a generated input file of several rows

(***************************************************************************)
(* Python values.                                                          *)
(***************************************************************************)
PyNone == [t |-> "NoneType", v |-> "None"]
PyBool(b) == [t |-> "bool", v |-> b]
PyInt(n) == [t |-> "int", v |-> n]
PyStr(s) == [t |-> "str", v |-> s]
PyDict(items) == [t |-> "dict", v |-> items]
PyList(elems) == [t |-> "list", v |-> elems]

IsNone(x) == x.t = "NoneType"

IsContainer(x) == x.t \in {"dict", "list"}

Range(s) == {s[i] : i \in DOMAIN s}

SeqsUpTo(S, n) == UNION {[1..k -> S] : k \in 0..n}

(***************************************************************************)
(* Characters and the order Python gives strings (by code point).          *)
(***************************************************************************)
\* the characters the model's strings are made of, in code-point order
Alphabet ==
    <<"*", ".", "0", "1", "2", "3", "I", "[", "]", "a", "b", "d", "e",
    "f", "g", "i", "l", "n", "r", "s", "t", "u", "v">>

Chars == Range(Alphabet)

\* the place of c in code-point order: all that str comparison reads of ord(c)
Ord(c) == CHOOSE i \in DOMAIN Alphabet : Alphabet[i] = c

\* str.__lt__: the first differing character decides; a proper prefix is smaller.
StrLess(p, q) ==
    \E k \in 1..(Len(p) + 1) :
        /\ \A j \in 1..(k - 1) : j <= Len(q) /\ p[j] = q[j]
        /\ \/ k = Len(p) + 1 /\ k <= Len(q)
           \/ k <= Len(p) /\ k <= Len(q) /\ Ord(p[k]) < Ord(q[k])

\* str(i) for a list index.
IndexStr(i) ==
    CASE i = 0 -> <<"0">> [] i = 1 -> <<"1">> [] i = 2 -> <<"2">> [] i = 3 -> <<"3">>

(***************************************************************************)
(* flatten_json.  The result dict is a function path -> leaf; dict(items)  *)
(* keeps the last value given for a key (DictUpdate).                        *)
(***************************************************************************)
DictUpdate(f, g) ==
    [k \in (DOMAIN f) \cup (DOMAIN g) |-> IF k \in DOMAIN g THEN g[k] ELSE f[k]]

EmptyMap == [k \in {} |-> PyNone]

RECURSIVE flatten_json(_, _)
RECURSIVE FlattenDictItems(_, _, _)
RECURSIVE FlattenListItems(_, _, _)

\* the loop over data.items(): new_key is parent.key, or key when parent is ''
FlattenDictItems(items, parent_key, n) ==
    IF n > Len(items) THEN EmptyMap
    ELSE LET key == items[n][1]
             value == items[n][2]
             new_key == IF parent_key # <<>> THEN parent_key \o <<".">> \o key ELSE key
             here == IF IsContainer(value) THEN flatten_json(value, new_key)
                     ELSE [k \in {new_key} |-> value]
         IN  DictUpdate(here, FlattenDictItems(items, parent_key, n + 1))

\* the loop over enumerate(data): new_key is parent[i]
FlattenListItems(elems, parent_key, n) ==
    IF n > Len(elems) THEN EmptyMap
    ELSE LET value == elems[n]
             new_key == parent_key \o <<"[">> \o IndexStr(n - 1) \o <<"]">>
             here == IF IsContainer(value) THEN flatten_json(value, new_key)
                     ELSE [k \in {new_key} |-> value]
         IN  DictUpdate(here, FlattenListItems(elems, parent_key, n + 1))

flatten_json(data, parent_key) ==
    IF data.t = "dict" THEN FlattenDictItems(data.v, parent_key, 1)
    ELSE IF data.t = "list" THEN FlattenListItems(data.v, parent_key, 1)
    ELSE [k \in {parent_key} |-> data]

(***************************************************************************)
(* get_friendly_description.  translations is the loaded dict, a sequence  *)
(* of <<path, description>> items; a description is a string kept as the   *)
(* sequence of its pieces, '' being <<>>.                                  *)
(***************************************************************************)
IsDigit(c) == c \in {"0", "1", "2", "3"}

\* the end of a match of \[\d+\] starting at i, or 0 when there is none
IndexMatchEnd(p, i) ==
    IF i > Len(p) \/ p[i] # "[" THEN 0
    ELSE LET ends == {j \in (i + 2)..Len(p) :
                         /\ p[j] = "]"
                         /\ \A k \in (i + 1)..(j - 1) : IsDigit(p[k])}
         IN  IF ends = {} THEN 0 ELSE CHOOSE j \in ends : \A k \in ends : j <= k

RECURSIVE ReSubIndex(_, _, _)
\* re.sub(r'\[\d+\]', repl, p), scanning from position i
ReSubIndex(p, repl, i) ==
    IF i > Len(p) THEN <<>>
    ELSE LET e == IndexMatchEnd(p, i)
         IN  IF e = 0 THEN <<p[i]>> \o ReSubIndex(p, repl, i + 1)
             ELSE repl \o ReSubIndex(p, repl, e + 1)

\* needle in hay
IsSubstring(needle, hay) ==
    \E o \in 0..(Len(hay) - Len(needle)) :
        \A k \in 1..Len(needle) : hay[o + k] = needle[k]

TransHas(tr, path) == \E n \in DOMAIN tr : tr[n][1] = path
TransGet(tr, path) == tr[CHOOSE n \in DOMAIN tr : tr[n][1] = path][2]

RECURSIVE BestMatch(_, _, _, _)
\* the loop over translations.items(): <<best_match, best_description>>
BestMatch(tr, path, n, best) ==
    IF n > Len(tr) THEN best
    ELSE LET trans_path == tr[n][1]
         IN  IF IsSubstring(trans_path, path) /\ Len(trans_path) > Len(best[1])
             THEN BestMatch(tr, path, n + 1, <<trans_path, tr[n][2]>>)
             ELSE BestMatch(tr, path, n + 1, best)

\* the steps shared by both comparators; fallback is what the last line returns
FriendlyDescription(tr, path, fallback) ==
    LET generic_path == ReSubIndex(path, <<"[", "*", "]">>, 1)
        no_array_path == ReSubIndex(path, <<>>, 1)
        best_description == BestMatch(tr, path, 1, <<<<>>, <<>>>>)[2]
    IN  IF TransHas(tr, path) THEN TransGet(tr, path)
        ELSE IF TransHas(tr, generic_path) THEN TransGet(tr, generic_path)
        ELSE IF TransHas(tr, no_array_path) THEN TransGet(tr, no_array_path)
        ELSE IF best_description # <<>> THEN best_description
        ELSE fallback

get_friendly_description(tr, path) == FriendlyDescription(tr, path, <<>>)

pdf_get_friendly_description(tr, path) == FriendlyDescription(tr, path, path)

(***************************************************************************)
(* compare_values and compare_jsons.                                       *)
(***************************************************************************)
\* compare_values with the first test not looking at val2
compare_values_first_only(val1, val2) ==
    IF IsNone(val1) THEN "added"
    ELSE IF IsNone(val2) THEN "removed"
    ELSE IF val1.t # val2.t THEN "type_changed"
    ELSE IF val1.v # val2.v THEN "modified"
    ELSE "same"

compare_values(val1, val2) ==
    IF IsNone(val1) /\ ~IsNone(val2) THEN "added"
    ELSE IF ~IsNone(val1) /\ IsNone(val2) THEN "removed"
    ELSE IF val1.t # val2.t THEN "type_changed"
    ELSE IF val1.v # val2.v THEN "modified"
    ELSE "same"

\* dict.get(key): None when the key is absent
DictGet(flat, key) == IF key \in DOMAIN flat THEN flat[key] ELSE PyNone

RECURSIVE sorted_reverse(_)
\* sorted(all_keys, reverse=True)
sorted_reverse(S) ==
    IF S = {} THEN <<>>
    ELSE LET m == CHOOSE x \in S : \A y \in S : x = y \/ StrLess(y, x)
         IN  <<m>> \o sorted_reverse(S \ {m})

RECURSIVE sorted(_)
\* sorted(all_keys): ascending in str order
sorted(S) ==
    IF S = {} THEN <<>>
    ELSE LET m == CHOOSE x \in S : \A y \in S : x = y \/ StrLess(x, y)
         IN  <<m>> \o sorted(S \ {m})

\* str(val) as the report shows it
PyStrOf(val) ==
    CASE val.t = "int" -> IndexStr(val.v)
      [] val.t = "str" -> val.v
      [] val.t = "bool" -> IF val.v THEN <<"True">> ELSE <<"False">>

ZeroStats == [added |-> 0, removed |-> 0, modified |-> 0, type_changed |-> 0]

\* the entry appended for key; absent is what an absent value is reported as
DiffEntry(key, val1, val2, diff_type, friendly_desc, absent) ==
    [path |-> key,
     friendly_description |-> friendly_desc,
     difference_type |-> diff_type,
     su_input_valor |-> IF ~IsNone(val1) THEN PyStr(PyStrOf(val1)) ELSE absent,
     contrato_input_valor |-> IF ~IsNone(val2) THEN PyStr(PyStrOf(val2)) ELSE absent,
     su_input_tipo |-> IF ~IsNone(val1) THEN PyStr(<<val1.t>>) ELSE PyNone,
     contrato_input_tipo |-> IF ~IsNone(val2) THEN PyStr(<<val2.t>>) ELSE PyNone]

RECURSIVE CompareLoop(_, _, _, _, _, _)
\* json_compare.compare_jsons, the loop over sorted(all_keys) from position n:
\* acc = [differences, stats]
CompareLoop(keys, flat1, flat2, tr, n, acc) ==
    IF n > Len(keys) THEN acc
    ELSE LET key == keys[n]
             val1 == DictGet(flat1, key)
             val2 == DictGet(flat2, key)
             diff_type == compare_values(val1, val2)
         IN  IF diff_type # "same"
             THEN CompareLoop(keys, flat1, flat2, tr, n + 1,
                      [differences |-> Append(acc.differences,
                           DiffEntry(key, val1, val2, diff_type,
                                     get_friendly_description(tr, key), PyNone)),
                       stats |-> [acc.stats EXCEPT ![diff_type] = @ + 1]])
             ELSE CompareLoop(keys, flat1, flat2, tr, n + 1, acc)

compare_jsons(j1, j2, tr, st) ==
    LET flat1 == flatten_json(j1, <<>>)
        flat2 == flatten_json(j2, <<>>)
        all_keys == (DOMAIN flat1) \cup (DOMAIN flat2)
    IN  CompareLoop(sorted(all_keys), flat1, flat2, tr, 1,
                    [differences |-> <<>>, stats |-> st])

\* "trade.tradeIdentifier[0].assignedIdentifier[0].identifier.value"
suppressed_path ==
    <<"t", "r", "a", "d", "e", ".", "t", "r", "a", "d", "e", "I", "d",
    "e", "n", "t", "i", "f", "i", "e", "r", "[", "0", "]", ".", "a", "s",
    "s", "i", "g", "n", "e", "d", "I", "d", "e", "n", "t", "i", "f", "i",
    "e", "r", "[", "0", "]", ".", "i", "d", "e", "n", "t", "i", "f", "i",
    "e", "r", ".", "v", "a", "l", "u", "e">>

\* a loop that skips no path
PdfCompareLoopNoSkip(keys, flat1, flat2, tr, n, acc) ==
    CompareLoop(keys, flat1, flat2, tr, n, acc)

RECURSIVE PdfCompareLoop(_, _, _, _, _, _)
\* json_pdf_report.compare_jsons, the loop: the suppressed path is skipped
PdfCompareLoop(keys, flat1, flat2, tr, n, acc) ==
    IF n > Len(keys) THEN acc
    ELSE LET key == keys[n]
             val1 == DictGet(flat1, key)
             val2 == DictGet(flat2, key)
             diff_type == compare_values(val1, val2)
         IN  IF key = suppressed_path
             THEN PdfCompareLoop(keys, flat1, flat2, tr, n + 1, acc)
             ELSE IF diff_type # "same"
             THEN PdfCompareLoop(keys, flat1, flat2, tr, n + 1,
                      [differences |-> Append(acc.differences,
                           DiffEntry(key, val1, val2, diff_type,
                                     pdf_get_friendly_description(tr, key),
                                     PyStr(<<"No registrado">>))),
                       stats |-> [acc.stats EXCEPT ![diff_type] = @ + 1]])
             ELSE PdfCompareLoop(keys, flat1, flat2, tr, n + 1, acc)

\* stats is reset at the start of every call
pdf_compare_jsons(j1, j2, tr) ==
    LET flat1 == flatten_json(j1, <<>>)
        flat2 == flatten_json(j2, <<>>)
        all_keys == (DOMAIN flat1) \cup (DOMAIN flat2)
    IN  PdfCompareLoop(sorted(all_keys), flat1, flat2, tr, 1,
                       [differences |-> <<>>, stats |-> ZeroStats])

(***************************************************************************)
(* The documents compared: every document of these shapes.                 *)
(***************************************************************************)
KeyA == <<"a">>
KeyB == <<"b">>

\* leaves: null, a boolean, two numbers, a string
Scalars == {PyNone, PyBool(TRUE), PyInt(1), PyInt(2), PyStr(<<"1">>)}

\* values of a generated object's keys
Inner ==
    Scalars
    \cup {PyDict(<<>>), PyList(<<PyInt(1)>>), PyDict(<< <<KeyB, PyInt(1)>> >>)}

\* elements of a generated array
ListElems == {PyInt(1), PyList(<<PyInt(1)>>), PyDict(<<>>)}

DictItemsOver(V) ==
    {<<>>}
    \cup {<< <<k, x>> >> : k \in {KeyA, KeyB}, x \in V}
    \cup {<< <<KeyA, x>>, <<KeyB, y>> >> : x \in V, y \in V}

\* documents holding the path the PDF report suppresses
SuppressedDocs ==
    {PyDict(<< <<suppressed_path, x>> >>) : x \in {PyInt(1), PyInt(2)}}
    \cup {PyDict(<< <<KeyA, PyInt(1)>>, <<suppressed_path, PyInt(1)>> >>)}

Docs ==
    {PyDict(items) : items \in DictItemsOver(Inner)}
    \cup {PyList(elems) : elems \in SeqsUpTo(ListElems, MaxArr)}
    \cup SuppressedDocs

(***************************************************************************)
(* The differ as a state machine: two loaded documents, and compare_jsons  *)
(* called on them on a json_compare comparator and on a PDF-report one.    *)
(***************************************************************************)
\* the comparators as constructed, no call made
\* no compare_jsons call made
NoComparison ==
    /\ differences = <<>>
    /\ stats = ZeroStats
    /\ pdfDifferences = <<>>
    /\ pdfStats = ZeroStats
    /\ calls = [cmp |-> 0, pdf |-> 0]

FreshComparators ==
    /\ translations = <<>>
    /\ NoComparison

\* no mapping run
NoMapper ==
    /\ mapper = [config |-> [x \in {} |-> PyNone], source |-> "banco"]
    /\ rows = <<>>
    /\ idx = 1
    /\ returned = <<>>
    /\ transformed_trades = <<>>
    /\ log = <<>>
    /\ output = PyNone
    /\ pc = "idle"

\* a call not made yet
Pending == [exc |-> "pending", val |-> PyNone]
NoLabel == [called |-> FALSE, text |-> <<>>]

NoFieldCall ==
    /\ rule = PyNone
    /\ record = <<>>
    /\ context = <<>>
    /\ resolved = Pending

NoTransformationCall ==
    /\ raw = <<>>
    /\ kind = ""
    /\ converted = Pending

NoLabelCall ==
    /\ asked = <<>>
    /\ label = NoLabel
    /\ pdfLabel = NoLabel

\* no single call made
NoCalls == NoFieldCall /\ NoTransformationCall /\ NoLabelCall

\* no program run from the command line
NoMain ==
    /\ argv = [program |-> ""]
    /\ exit_status = PyNone

DiffInit ==
    /\ NoMain
    /\ json1 \in Docs
    /\ json2 \in Docs
    /\ FreshComparators
    /\ NoMapper
    /\ NoCalls

\* json_compare.JSONComparator.compare_jsons(json1, json2)
CompareJsons ==
    /\ calls.cmp + calls.pdf < MaxCalls
    /\ LET r == compare_jsons(json1, json2, translations, stats)
       IN  /\ differences' = r.differences
           /\ stats' = r.stats
    /\ calls' = [calls EXCEPT !.cmp = @ + 1]
    /\ UNCHANGED <<json1, json2, translations, pdfDifferences, pdfStats>>
    /\ UNCHANGED mapVars
    /\ UNCHANGED mainVars
    /\ UNCHANGED callVars

\* json_pdf_report.JSONComparator.compare_jsons(json1, json2)
PdfCompareJsons ==
    /\ calls.cmp + calls.pdf < MaxCalls
    /\ LET r == pdf_compare_jsons(json1, json2, translations)
       IN  /\ pdfDifferences' = r.differences
           /\ pdfStats' = r.stats
    /\ calls' = [calls EXCEPT !.pdf = @ + 1]
    /\ UNCHANGED <<json1, json2, translations, differences, stats>>
    /\ UNCHANGED mapVars
    /\ UNCHANGED mainVars
    /\ UNCHANGED callVars

DiffNext == CompareJsons \/ PdfCompareJsons

SpecDiff == DiffInit /\ [][DiffNext]_vars

(***************************************************************************)
(*                     The trade-data mapper                               *)
(*                                                                         *)
(* A string of the mapper is the sequence of its pieces: 'deal_number' is  *)
(* <<"deal_number">>, the template 'legs[{idx}].x' is                      *)
(* <<"legs[", "{idx}", "].x">> with the placeholder a piece of its own,    *)
(* and '' is <<>>.  A raw trade record (one csv.DictReader row) is a       *)
(* function from field names to strings.  What a method does is an         *)
(* outcome: the value it returns, or the exception it raises.              *)
(***************************************************************************)
PyFloat(n) == [t |-> "float", v |-> n]

Ok(x) == [exc |-> "none", val |-> x]
Raise(e) == [exc |-> e, val |-> PyNone]
Raised(o) == o.exc # "none"

\* key in d, d[key] and d[key] = value for a dict kept as its items
HasKey(d, key) == \E n \in DOMAIN d.v : d.v[n][1] = key
GetKey(d, key) == d.v[CHOOSE n \in DOMAIN d.v : d.v[n][1] = key][2]
SetKey(d, key, value) ==
    IF HasKey(d, key)
    THEN PyDict([n \in DOMAIN d.v |->
                    IF d.v[n][1] = key THEN <<key, value>> ELSE d.v[n]])
    ELSE PyDict(Append(d.v, <<key, value>>))

RECURSIVE UpdateFrom(_, _, _)
\* d.update(other): other's items assigned in order, from item n on
UpdateFrom(d, other, n) ==
    IF n > Len(other.v) THEN d
    ELSE UpdateFrom(SetKey(d, other.v[n][1], other.v[n][2]), other, n + 1)

\* bool(x) of a str or None
Truthy(x) == ~IsNone(x) /\ x.v # <<>>

\* trade_row.get(field): the str, or None
RowGet(trade_row, field) ==
    IF field \in DOMAIN trade_row THEN PyStr(trade_row[field]) ELSE PyNone

\* str(x) of an int or None, as one piece
StrPiece(x) == IF IsNone(x) THEN "None" ELSE ToString(x.v)

\* template.replace(placeholder, piece)
Replace(template, placeholder, piece) ==
    [n \in DOMAIN template |-> IF template[n] = placeholder THEN piece ELSE template[n]]

IsPlaceholder(piece) == piece \in {"{idx}", "{receive_leg_idx}"}

\* config.get(key, default) of the loaded YAML mapping
ConfigGet(cfg, key, default) == IF key \in DOMAIN cfg THEN cfg[key] ELSE default

DefaultRoleField == <<"legs[", "{idx}", "].leg_generator.rp">>
DefaultRoles == [receive |-> <<"A">>, pay |-> <<"P">>]

NoAssignments == [receive_leg_source |-> PyNone, pay_leg_source |-> PyNone]

RECURSIVE AssignLegs(_, _, _, _, _)
\* the loop "for leg_idx in [0, 1]" of _determine_leg_assignments, from leg_idx
\* on; str.format raises KeyError on a placeholder it is given no value for
AssignLegs(trade_row, role_field_template, roles, leg_idx, assignments) ==
    IF leg_idx > 1 THEN Ok(assignments)
    ELSE IF \E n \in DOMAIN role_field_template :
                IsPlaceholder(role_field_template[n])
                /\ role_field_template[n] # "{idx}"
    THEN Raise("KeyError")
    ELSE LET role_field == Replace(role_field_template, "{idx}", ToString(leg_idx))
             leg_role_value == RowGet(trade_row, role_field)
         IN  IF "receive" \notin DOMAIN roles THEN Raise("KeyError")
             ELSE IF leg_role_value = PyStr(roles.receive)
             THEN AssignLegs(trade_row, role_field_template, roles, leg_idx + 1,
                      [assignments EXCEPT !.receive_leg_source = PyInt(leg_idx)])
             ELSE IF "pay" \notin DOMAIN roles THEN Raise("KeyError")
             ELSE IF leg_role_value = PyStr(roles.pay)
             THEN AssignLegs(trade_row, role_field_template, roles, leg_idx + 1,
                      [assignments EXCEPT !.pay_leg_source = PyInt(leg_idx)])
             ELSE AssignLegs(trade_row, role_field_template, roles, leg_idx + 1,
                             assignments)

_determine_leg_assignments(cfg, trade_row) ==
    LET leg_assignment == ConfigGet(cfg, "leg_assignment", [x \in {} |-> <<>>])
        role_field_template == ConfigGet(leg_assignment, "role_field", DefaultRoleField)
        roles == ConfigGet(leg_assignment, "roles", DefaultRoles)
    IN  AssignLegs(trade_row, role_field_template, roles, 0, NoAssignments)

\* _resolve_field_template: leg_assignments.get('receive_leg_source', 0) is the
\* stored value whenever the key is there, None included
_resolve_field_template(field_template, leg_assignments, ctx) ==
    LET receive_leg_idx ==
            IF "receive_leg_source" \in DOMAIN leg_assignments
            THEN leg_assignments.receive_leg_source ELSE PyInt(0)
        t1 == IF "{receive_leg_idx}" \in Range(field_template)
              THEN Replace(field_template, "{receive_leg_idx}", StrPiece(receive_leg_idx))
              ELSE field_template
    IN  IF "{idx}" \in Range(t1) /\ "leg_idx" \in DOMAIN ctx
        THEN Replace(t1, "{idx}", StrPiece(ctx.leg_idx))
        ELSE t1

(***************************************************************************)
(* The value transformations.  A numeric string is made of digit pieces; a *)
(* date string of number pieces and separator pieces.                      *)
(***************************************************************************)
\* the digit strings of the model: piece -> <<its value, its number of digits>>
DigitPieces ==
    [p \in {"0", "1", "2", "3", "6", "9", "09", "11", "12", "13", "17", "24",
            "25", "30", "31", "000", "2025", "2026", "2027"} |->
        CASE p = "0" -> <<0, 1>> [] p = "1" -> <<1, 1>> [] p = "2" -> <<2, 1>>
          [] p = "3" -> <<3, 1>> [] p = "6" -> <<6, 1>> [] p = "9" -> <<9, 1>>
          [] p = "09" -> <<9, 2>> [] p = "11" -> <<11, 2>> [] p = "12" -> <<12, 2>>
          [] p = "13" -> <<13, 2>> [] p = "17" -> <<17, 2>> [] p = "24" -> <<24, 2>>
          [] p = "25" -> <<25, 2>> [] p = "30" -> <<30, 2>> [] p = "31" -> <<31, 2>>
          [] p = "000" -> <<0, 3>> [] p = "2025" -> <<2025, 4>>
          [] p = "2026" -> <<2026, 4>> [] p = "2027" -> <<2027, 4>>]

RECURSIVE Pow10(_)
Pow10(n) == IF n = 0 THEN 1 ELSE 10 * Pow10(n - 1)

IsDigits(str) == str # <<>> /\ \A n \in DOMAIN str : str[n] \in DOMAIN DigitPieces

RECURSIVE DigitsValue(_, _, _)
\* the number the digit pieces of str spell, from piece n on
DigitsValue(str, n, acc) ==
    IF n > Len(str) THEN acc
    ELSE DigitsValue(str, n + 1,
                     acc * Pow10(DigitPieces[str[n]][2]) + DigitPieces[str[n]][1])

\* int(value) of a str
PyIntOf(str) == IF IsDigits(str) THEN Ok(PyInt(DigitsValue(str, 1, 0))) ELSE Raise("ValueError")

\* float(value) of a str
PyFloatOf(str) ==
    IF IsDigits(str) THEN Ok(PyFloat(DigitsValue(str, 1, 0))) ELSE Raise("ValueError")

\* notional_str.replace(',', '').replace(' ', '')
RemoveSeparators(str) == SelectSeq(str, LAMBDA piece : piece \notin {",", " "})

_transform_notional(notional_str) ==
    IF notional_str = <<>> THEN Raise("ValueError")
    ELSE PyFloatOf(RemoveSeparators(notional_str))

\* the strptime formats, as pieces
FmtYMDdash == <<"%Y", "-", "%m", "-", "%d">>
FmtDMYslash == <<"%d", "/", "%m", "/", "%Y">>
FmtMDYslash == <<"%m", "/", "%d", "/", "%Y">>
FmtYMDslash == <<"%Y", "/", "%m", "/", "%d">>

\* format_mapping.get(input_date_format, '%Y-%m-%d')
FormatMapping(input_date_format) ==
    CASE input_date_format = "YYYY-MM-DD" -> FmtYMDdash
      [] input_date_format = "DD/MM/YYYY" -> FmtDMYslash
      [] input_date_format = "MM/DD/YYYY" -> FmtMDYslash
      [] input_date_format = "YYYY/MM/DD" -> FmtYMDslash
      [] OTHER -> FmtYMDdash

DaysInMonth(year, month) ==
    IF month = 2 THEN (IF year % 4 = 0 /\ (year % 100 # 0 \/ year % 400 = 0) THEN 29 ELSE 28)
    ELSE IF month \in {4, 6, 9, 11} THEN 30 ELSE 31

\* datetime.strptime(date_str, fmt): [ok, year, month, day]
Strptime(date_str, fmt) ==
    LET bad == [ok |-> FALSE, year |-> 0, month |-> 0, day |-> 0]
        at(d) == CHOOSE n \in DOMAIN fmt : fmt[n] = d
        shaped ==
            /\ Len(date_str) = Len(fmt)
            /\ \A n \in DOMAIN fmt :
                  IF fmt[n] \in {"%Y", "%m", "%d"}
                  THEN /\ date_str[n] \in DOMAIN DigitPieces
                       /\ IF fmt[n] = "%Y" THEN DigitPieces[date_str[n]][2] = 4
                          ELSE DigitPieces[date_str[n]][2] <= 2
                  ELSE date_str[n] = fmt[n]
    IN  IF ~shaped THEN bad
        ELSE LET y == DigitPieces[date_str[at("%Y")]][1]
                 m == DigitPieces[date_str[at("%m")]][1]
                 d == DigitPieces[date_str[at("%d")]][1]
             IN  IF y >= 1 /\ m \in 1..12 /\ d >= 1 /\ d <= DaysInMonth(y, m)
                 THEN [ok |-> TRUE, year |-> y, month |-> m, day |-> d]
                 ELSE bad

Pad2(n) == IF n < 10 THEN "0" \o ToString(n) ELSE ToString(n)

\* dt.strftime('%d/%m/%Y') for a four-digit year
StrftimeDMY(dt) == <<Pad2(dt.day), "/", Pad2(dt.month), "/", ToString(dt.year)>>

RECURSIVE TryAlternativeFormatsMonthFirst(_, _, _, _)
\* a loop that tries the month-first format before the day-first one
TryAlternativeFormatsMonthFirst(date_str, input_format, alternative_formats, n) ==
    LET order == <<3, 2, 1, 4>>
    IN  IF n > Len(alternative_formats) THEN date_str
        ELSE IF alternative_formats[order[n]] # input_format
                /\ Strptime(date_str, alternative_formats[order[n]]).ok
        THEN StrftimeDMY(Strptime(date_str, alternative_formats[order[n]]))
        ELSE TryAlternativeFormatsMonthFirst(date_str, input_format,
                                             alternative_formats, n + 1)

RECURSIVE TryAlternativeFormats(_, _, _, _)
\* the loop over alternative_formats, from format n on
TryAlternativeFormats(date_str, input_format, alternative_formats, n) ==
    IF n > Len(alternative_formats) THEN date_str
    ELSE IF alternative_formats[n] # input_format
            /\ Strptime(date_str, alternative_formats[n]).ok
    THEN StrftimeDMY(Strptime(date_str, alternative_formats[n]))
    ELSE TryAlternativeFormats(date_str, input_format, alternative_formats, n + 1)

_transform_date(cfg, date_str) ==
    IF date_str = <<>> THEN <<>>
    ELSE LET input_format == FormatMapping(ConfigGet(cfg, "date_format", "YYYY-MM-DD"))
         IN  IF Strptime(date_str, input_format).ok
             THEN StrftimeDMY(Strptime(date_str, input_format))
             ELSE TryAlternativeFormats(date_str, input_format,
                      <<FmtDMYslash, FmtYMDdash, FmtMDYslash, FmtYMDslash>>, 1)

NoTables == [x \in {} |-> [y \in {} |-> PyNone]]

\* _apply_transformation(value, transformation_type) for a str value; the type
\* is the one piece of the rule's 'transformation' string
\* a table lookup that passes an unknown code through
_apply_transformation_lenient(cfg, value, transformation_type) ==
    LET transformations == ConfigGet(cfg, "transformations", NoTables)
    IN  IF transformation_type = "date_format" THEN Ok(PyStr(_transform_date(cfg, value)))
        ELSE IF transformation_type = "integer" THEN PyIntOf(value)
        ELSE IF transformation_type = "float" THEN PyFloatOf(value)
        ELSE IF transformation_type = "notional" THEN _transform_notional(value)
        ELSE IF transformation_type = "fx_fixing_lag"
        THEN LET mapping == ConfigGet(transformations, transformation_type,
                                      [y \in {} |-> PyNone])
             IN  IF value \in DOMAIN mapping THEN Ok(mapping[value])
                 ELSE IF value # <<>> THEN PyIntOf(value) ELSE Ok(PyInt(0))
        ELSE IF transformation_type \in DOMAIN transformations
        THEN LET mapping == transformations[transformation_type]
             IN  IF value \notin DOMAIN mapping THEN Ok(PyStr(value))
                 ELSE Ok(mapping[value])
        ELSE Raise("ValueError")

_apply_transformation(cfg, value, transformation_type) ==
    LET transformations == ConfigGet(cfg, "transformations", NoTables)
    IN  IF transformation_type = "date_format" THEN Ok(PyStr(_transform_date(cfg, value)))
        ELSE IF transformation_type = "integer" THEN PyIntOf(value)
        ELSE IF transformation_type = "float" THEN PyFloatOf(value)
        ELSE IF transformation_type = "notional" THEN _transform_notional(value)
        ELSE IF transformation_type = "fx_fixing_lag"
        THEN LET mapping == ConfigGet(transformations, transformation_type,
                                      [y \in {} |-> PyNone])
             IN  IF value \in DOMAIN mapping THEN Ok(mapping[value])
                 ELSE IF value # <<>> THEN PyIntOf(value) ELSE Ok(PyInt(0))
        ELSE IF transformation_type \in DOMAIN transformations
        THEN LET mapping == transformations[transformation_type]
             IN  IF value \notin DOMAIN mapping THEN Raise("ValueError")
                 ELSE Ok(mapping[value])
        ELSE Raise("ValueError")

(***************************************************************************)
(* _calculate_period_value and _check_condition.                           *)
(***************************************************************************)
Str(piece) == PyStr(<<piece>>)

NoContextAssignments == [x \in {} |-> PyNone]

\* a marker that does not look at the calculation type
FullTermMarkerTermOnly(calc_type) == Str("TERM")

\* "ATMATURITY" if calc_type == 'payment_frequency' else "TERM"
FullTermMarker(calc_type) ==
    IF calc_type = Str("payment_frequency") THEN Str("ATMATURITY") ELSE Str("TERM")

\* a span test that also refuses a period longer than the trade
SpansWholeTradeWithin(source_fields, trade_row, leg_idx, total_months) ==
    LET start_tpl == GetKey(source_fields, <<"start_date">>)
        end_tpl == GetKey(source_fields, <<"end_date">>)
    IN  IF start_tpl.t # "str" \/ end_tpl.t # "str" THEN FALSE
        ELSE LET start_field == _resolve_field_template(start_tpl.v,
                                    NoContextAssignments, [leg_idx |-> leg_idx])
                 end_field == _resolve_field_template(end_tpl.v,
                                    NoContextAssignments, [leg_idx |-> leg_idx])
             IN  IF start_field \notin DOMAIN trade_row \/ end_field \notin DOMAIN trade_row
                 THEN FALSE
                 ELSE LET start_dt == Strptime(trade_row[start_field], FmtYMDdash)
                          end_dt == Strptime(trade_row[end_field], FmtYMDdash)
                          trade_months == (end_dt.year - start_dt.year) * 12
                                          + (end_dt.month - start_dt.month)
                      IN  /\ start_dt.ok /\ end_dt.ok
                          /\ total_months >= trade_months - 1
                          /\ total_months <= trade_months + 1

\* the span test inside the try block: TRUE when it returns the full-term
\* marker, FALSE when it does not or when anything inside raises
SpansWholeTrade(source_fields, trade_row, leg_idx, total_months) ==
    LET start_tpl == GetKey(source_fields, <<"start_date">>)
        end_tpl == GetKey(source_fields, <<"end_date">>)
    IN  IF start_tpl.t # "str" \/ end_tpl.t # "str" THEN FALSE
        ELSE LET start_field == _resolve_field_template(start_tpl.v,
                                    NoContextAssignments, [leg_idx |-> leg_idx])
                 end_field == _resolve_field_template(end_tpl.v,
                                    NoContextAssignments, [leg_idx |-> leg_idx])
             IN  IF start_field \notin DOMAIN trade_row \/ end_field \notin DOMAIN trade_row
                 THEN FALSE
                 ELSE LET start_dt == Strptime(trade_row[start_field], FmtYMDdash)
                          end_dt == Strptime(trade_row[end_field], FmtYMDdash)
                          trade_months == (end_dt.year - start_dt.year) * 12
                                          + (end_dt.month - start_dt.month)
                      IN  start_dt.ok /\ end_dt.ok /\ total_months >= trade_months - 1

\* a rendering that prefers the months to the years
PeriodValueMonthsFirst(source_fields, calc_type, trade_row, leg_idx, years, months, days) ==
    LET total_months == years * 12 + months
    IN  IF years >= 25 THEN FullTermMarker(calc_type)
        ELSE IF total_months = 0 /\ days = 0 THEN FullTermMarker(calc_type)
        ELSE IF /\ HasKey(source_fields, <<"start_date">>)
                /\ HasKey(source_fields, <<"end_date">>)
                /\ SpansWholeTrade(source_fields, trade_row, leg_idx, total_months)
        THEN FullTermMarker(calc_type)
        ELSE IF months > 0 THEN PyStr(<<ToString(months), "M">>)
        ELSE IF years > 0 THEN PyStr(<<ToString(years), "Y">>)
        ELSE IF days > 0 THEN PyStr(<<ToString(days), "D">>)
        ELSE FullTermMarker(calc_type)

\* the part of _calculate_period_value after years, months and days are read
PeriodValue(source_fields, calc_type, trade_row, leg_idx, years, months, days) ==
    LET total_months == years * 12 + months
    IN  IF years >= 25 THEN FullTermMarker(calc_type)
        ELSE IF total_months = 0 /\ days = 0 THEN FullTermMarker(calc_type)
        ELSE IF /\ HasKey(source_fields, <<"start_date">>)
                /\ HasKey(source_fields, <<"end_date">>)
                /\ SpansWholeTrade(source_fields, trade_row, leg_idx, total_months)
        THEN FullTermMarker(calc_type)
        ELSE IF years > 0 THEN PyStr(<<ToString(years), "Y">>)
        ELSE IF months > 0 THEN PyStr(<<ToString(months), "M">>)
        ELSE IF days > 0 THEN PyStr(<<ToString(days), "D">>)
        ELSE FullTermMarker(calc_type)

_calculate_period_value(source_fields, calc_type, trade_row, ctx) ==
    LET leg_idx == IF "leg_idx" \in DOMAIN ctx THEN ctx.leg_idx ELSE PyInt(0)
        field(key) == _resolve_field_template(GetKey(source_fields, key).v,
                          NoContextAssignments, [leg_idx |-> leg_idx])
        keys == <<<<"years">>, <<"months">>, <<"days">>>>
    IN  IF source_fields.t # "dict" THEN Raise("TypeError")
        ELSE IF \E n \in 1..3 : ~HasKey(source_fields, keys[n]) THEN Raise("KeyError")
        ELSE IF \E n \in 1..3 : GetKey(source_fields, keys[n]).t # "str"
        THEN Raise("TypeError")
        ELSE IF field(keys[1]) \notin DOMAIN trade_row THEN Raise("KeyError")
        ELSE IF Raised(PyIntOf(trade_row[field(keys[1])])) THEN Raise("ValueError")
        ELSE IF field(keys[2]) \notin DOMAIN trade_row THEN Raise("KeyError")
        ELSE IF Raised(PyIntOf(trade_row[field(keys[2])])) THEN Raise("ValueError")
        ELSE IF field(keys[3]) \notin DOMAIN trade_row THEN Raise("KeyError")
        ELSE IF Raised(PyIntOf(trade_row[field(keys[3])])) THEN Raise("ValueError")
        ELSE Ok(PeriodValue(source_fields, calc_type, trade_row, leg_idx,
                            PyIntOf(trade_row[field(keys[1])]).val.v,
                            PyIntOf(trade_row[field(keys[2])]).val.v,
                            PyIntOf(trade_row[field(keys[3])]).val.v))

RECURSIVE FindQuoted(_, _)
\* re.findall(r"'([^']*)'", values_str) from piece n on: the strings between
\* one quote piece and the next
FindQuoted(str, n) ==
    LET opens == {i \in n..Len(str) : str[i] = "'"}
    IN  IF opens = {} THEN <<>>
        ELSE LET i == CHOOSE x \in opens : \A y \in opens : x <= y
                 closes == {j \in (i + 1)..Len(str) : str[j] = "'"}
             IN  IF closes = {} THEN <<>>
                 ELSE LET j == CHOOSE x \in closes : \A y \in closes : x <= y
                      IN  <<SubSeq(str, i + 1, j - 1)>> \o FindQuoted(str, j + 1)

\* _check_condition(condition, trade_row, leg_idx) for a str condition
_check_condition(condition, trade_row, leg_idx) ==
    IF condition = <<>> THEN Ok(FALSE)
    ELSE LET cond == Replace(condition, "{idx}", StrPiece(leg_idx))
             ins == {n \in DOMAIN cond : cond[n] = " in ["}
         IN  IF ins # {}
             THEN \* field_part, values_part = condition.split(' in [')
                  IF Cardinality(ins) > 1 THEN Raise("ValueError")
                  ELSE LET at == CHOOSE n \in ins : TRUE
                           field_name == SubSeq(cond, 1, at - 1)
                           values == FindQuoted(SubSeq(cond, at + 1, Len(cond)), 1)
                       IN  Ok(/\ field_name \in DOMAIN trade_row
                              /\ trade_row[field_name] \in Range(values))
             ELSE IF " is not empty" \in Range(cond)
             THEN LET field_name == SelectSeq(cond, LAMBDA x : x # " is not empty")
                  IN  Ok(/\ field_name \in DOMAIN trade_row
                         /\ trade_row[field_name] # <<>>)
             ELSE Ok(FALSE)

(***************************************************************************)
(* _process_field_mapping: the chain of "if" blocks, each returning or     *)
(* falling through to the next.                                            *)
(***************************************************************************)
FallThrough == [exc |-> "fallthrough", val |-> PyNone]

\* the one piece naming a transformation, "" for a config value that names none
TransformationName(x) == IF x.t = "str" /\ Len(x.v) = 1 THEN x.v[1] ELSE ""

\* "if 'transformation' in field_config: value = self._apply_transformation(...)"
Transformed(self, field_config, value) ==
    IF HasKey(field_config, <<"transformation">>)
    THEN _apply_transformation(self.config, value,
             TransformationName(GetKey(field_config, <<"transformation">>)))
    ELSE Ok(PyStr(value))

\* ref_path.split('.') from piece n on, part being the piece run collected so far
RECURSIVE SplitDots(_, _, _)
SplitDots(str, n, part) ==
    IF n > Len(str) THEN <<part>>
    ELSE IF str[n] = "." THEN <<part>> \o SplitDots(str, n + 1, <<>>)
    ELSE SplitDots(str, n + 1, Append(part, str[n]))

RECURSIVE NavigateOrNone(_, _, _)
\* a lookup that gives None for a path that does not resolve
NavigateOrNone(current, parts, n) ==
    IF n > Len(parts) THEN current
    ELSE IF current.t = "dict" /\ HasKey(current, parts[n])
    THEN NavigateOrNone(GetKey(current, parts[n]), parts, n + 1)
    ELSE PyNone

RECURSIVE Navigate(_, _, _)
\* the loop over ref_path.split('.') from part n on
Navigate(current, parts, n) ==
    IF n > Len(parts) THEN current
    ELSE IF current.t = "dict" /\ HasKey(current, parts[n])
    THEN Navigate(GetKey(current, parts[n]), parts, n + 1)
    ELSE PyList(<<Str("CLSA")>>)

StaticValueBranch(field_config) ==
    IF field_config.t = "dict" /\ HasKey(field_config, <<"static_value">>)
    THEN Ok(GetKey(field_config, <<"static_value">>))
    ELSE FallThrough

DynamicValueBranch(self, field_config) ==
    IF /\ field_config.t = "dict"
       /\ HasKey(field_config, <<"dynamic_value">>)
       /\ GetKey(field_config, <<"dynamic_value">>) = Str("source_parameter")
    THEN Ok(Str(self.source))
    ELSE FallThrough

\* a lookup with trade_row.get: None for a field the row does not have
SourceFieldBranchLenient(self, field_config, trade_row, leg_assignments, ctx) ==
    IF /\ field_config.t = "dict"
       /\ HasKey(field_config, <<"source_field">>)
       /\ ~HasKey(field_config, <<"fallback_source">>)
    THEN LET template == GetKey(field_config, <<"source_field">>)
             source_field == _resolve_field_template(template.v, leg_assignments, ctx)
         IN  IF template.t # "str" THEN Raise("TypeError")
             ELSE IF source_field \notin DOMAIN trade_row THEN Ok(PyNone)
             ELSE Transformed(self, field_config, trade_row[source_field])
    ELSE FallThrough

SourceFieldBranch(self, field_config, trade_row, leg_assignments, ctx) ==
    IF /\ field_config.t = "dict"
       /\ HasKey(field_config, <<"source_field">>)
       /\ ~HasKey(field_config, <<"fallback_source">>)
    THEN LET template == GetKey(field_config, <<"source_field">>)
             source_field == _resolve_field_template(template.v, leg_assignments, ctx)
         IN  IF template.t # "str" THEN Raise("TypeError")
             ELSE IF source_field \notin DOMAIN trade_row THEN Raise("KeyError")
             ELSE Transformed(self, field_config, trade_row[source_field])
    ELSE FallThrough

\* a block that looks at the primary/fallback pair before the calculation type
SourceFieldsBranchPairFirst(self, field_config, trade_row, leg_assignments, ctx) ==
    IF field_config.t = "dict" /\ HasKey(field_config, <<"source_fields">>)
    THEN LET source_fields == GetKey(field_config, <<"source_fields">>)
         IN  IF source_fields.t = "dict" /\ HasKey(source_fields, <<"primary">>)
             THEN LET primary == GetKey(source_fields, <<"primary">>)
                      primary_field ==
                          _resolve_field_template(primary.v, leg_assignments, ctx)
                  IN  IF primary.t # "str" THEN Raise("TypeError")
                      ELSE IF primary_field \in DOMAIN trade_row
                              /\ trade_row[primary_field] # <<>>
                      THEN Transformed(self, field_config, trade_row[primary_field])
                      ELSE IF HasKey(source_fields, <<"fallback">>)
                      THEN LET fallback == GetKey(source_fields, <<"fallback">>)
                               fallback_field ==
                                   _resolve_field_template(fallback.v, leg_assignments, ctx)
                           IN  IF fallback.t # "str" THEN Raise("TypeError")
                               ELSE IF fallback_field \notin DOMAIN trade_row
                               THEN Raise("KeyError")
                               ELSE Transformed(self, field_config, trade_row[fallback_field])
                      ELSE FallThrough
             ELSE IF HasKey(field_config, <<"calculation_type">>)
             THEN _calculate_period_value(source_fields,
                      GetKey(field_config, <<"calculation_type">>), trade_row, ctx)
             ELSE FallThrough
    ELSE FallThrough

SourceFieldsBranch(self, field_config, trade_row, leg_assignments, ctx) ==
    IF field_config.t = "dict" /\ HasKey(field_config, <<"source_fields">>)
    THEN LET source_fields == GetKey(field_config, <<"source_fields">>)
         IN  IF HasKey(field_config, <<"calculation_type">>)
             THEN _calculate_period_value(source_fields,
                      GetKey(field_config, <<"calculation_type">>), trade_row, ctx)
             ELSE IF source_fields.t = "dict" /\ HasKey(source_fields, <<"primary">>)
             THEN LET primary == GetKey(source_fields, <<"primary">>)
                      primary_field ==
                          _resolve_field_template(primary.v, leg_assignments, ctx)
                  IN  IF primary.t # "str" THEN Raise("TypeError")
                      ELSE IF primary_field \in DOMAIN trade_row
                              /\ trade_row[primary_field] # <<>>
                      THEN Transformed(self, field_config, trade_row[primary_field])
                      ELSE IF HasKey(source_fields, <<"fallback">>)
                      THEN LET fallback == GetKey(source_fields, <<"fallback">>)
                               fallback_field ==
                                   _resolve_field_template(fallback.v, leg_assignments, ctx)
                           IN  IF fallback.t # "str" THEN Raise("TypeError")
                               ELSE IF fallback_field \notin DOMAIN trade_row
                               THEN Raise("KeyError")
                               ELSE Transformed(self, field_config, trade_row[fallback_field])
                      ELSE FallThrough
             ELSE FallThrough
    ELSE FallThrough

FallbackSourceBranch(field_config, trade_row, leg_assignments, ctx) ==
    IF field_config.t = "dict" /\ HasKey(field_config, <<"fallback_source">>)
    THEN LET template == IF HasKey(field_config, <<"source_field">>)
                         THEN GetKey(field_config, <<"source_field">>) ELSE PyNone
             \* the try block: a template that is no str raises TypeError, caught
             value == IF template.t = "str"
                      THEN RowGet(trade_row,
                               _resolve_field_template(template.v, leg_assignments, ctx))
                      ELSE PyNone
             fallback == GetKey(field_config, <<"fallback_source">>)
             fallback_field == _resolve_field_template(fallback.v, leg_assignments, ctx)
         IN  IF Truthy(value) THEN Ok(value)
             ELSE IF fallback.t # "str" THEN Raise("TypeError")
             ELSE IF fallback_field \notin DOMAIN trade_row THEN Raise("KeyError")
             ELSE Ok(PyStr(trade_row[fallback_field]))
    ELSE FallThrough

ReferenceFieldBranch(field_config, ctx) ==
    IF field_config.t = "dict" /\ HasKey(field_config, <<"reference_field">>)
    THEN LET ref_path == GetKey(field_config, <<"reference_field">>)
             leg_object == IF "leg_object" \in DOMAIN ctx THEN ctx.leg_object
                           ELSE PyDict(<<>>)
         IN  IF ref_path.t # "str" THEN Raise("AttributeError")
             ELSE Ok(Navigate(leg_object, SplitDots(ref_path.v, 1, <<>>), 1))
    ELSE FallThrough

IsNestedObject(field_config) ==
    /\ field_config.t = "dict"
    /\ ~\E key \in {<<"source_field">>, <<"static_value">>, <<"dynamic_value">>,
                    <<"source_fields">>} : HasKey(field_config, key)

LegRoleBranch(field_config, ctx) ==
    IF field_config.t = "dict" /\ HasKey(field_config, <<"receive_leg">>)
    THEN LET is_receive == IF "is_receive" \in DOMAIN ctx THEN ctx.is_receive ELSE FALSE
             key == IF is_receive THEN <<"receive_leg">> ELSE <<"pay_leg">>
         IN  Ok(IF HasKey(field_config, key) THEN GetKey(field_config, key) ELSE PyNone)
    ELSE FallThrough

RECURSIVE _process_field_mapping(_, _, _, _, _)
RECURSIVE NestedObject(_, _, _, _, _, _, _)
RECURSIVE NestedObjectItem(_, _, _, _, _, _, _, _)

\* the step of a loop that assigns target[key] = value: the exception of the
\* value if it raised, else the rest of the loop
NestedObjectItem(self, field_config, trade_row, leg_assignments, ctx, n, result, sub) ==
    IF Raised(sub) THEN sub
    ELSE NestedObject(self, field_config, trade_row, leg_assignments, ctx,
                      n + 1, SetKey(result, field_config.v[n][1], sub.val))

\* the loop of the nested-object block, from item n of field_config on
NestedObject(self, field_config, trade_row, leg_assignments, ctx, n, result) ==
    IF n > Len(field_config.v) THEN Ok(result)
    ELSE NestedObjectItem(self, field_config, trade_row, leg_assignments, ctx, n, result,
             _process_field_mapping(self, field_config.v[n][2], trade_row,
                                    leg_assignments, ctx))

\* an "if" block that returned, or else what follows it
OrElse(block, following) == IF block.exc # "fallthrough" THEN block ELSE following

_process_field_mapping(self, field_config, trade_row, leg_assignments, ctx) ==
    OrElse(StaticValueBranch(field_config),
    OrElse(DynamicValueBranch(self, field_config),
    OrElse(SourceFieldBranch(self, field_config, trade_row, leg_assignments, ctx),
    OrElse(SourceFieldsBranch(self, field_config, trade_row, leg_assignments, ctx),
    OrElse(FallbackSourceBranch(field_config, trade_row, leg_assignments, ctx),
    OrElse(ReferenceFieldBranch(field_config, ctx),
    OrElse(IF IsNestedObject(field_config)
           THEN NestedObject(self, field_config, trade_row, leg_assignments, ctx, 1,
                             PyDict(<<>>))
           ELSE FallThrough,
    OrElse(LegRoleBranch(field_config, ctx),
           Ok(field_config)))))))))

(***************************************************************************)
(* Building the header and the legs of one trade.                          *)
(***************************************************************************)
\* config.get(section, {}) for a section holding a mapping
Section(cfg, name) == ConfigGet(cfg, name, PyDict(<<>>))

RECURSIVE MapFields(_, _, _, _, _, _, _, _)
RECURSIVE MapFieldsItem(_, _, _, _, _, _, _, _, _)

\* target[field_name] = value, then the rest of the loop; an exception of the
\* value ends the loop
MapFieldsItem(self, mappings, trade_row, leg_assignments, ctx, with_leg_object, n, target, value) ==
    IF Raised(value) THEN value
    ELSE MapFields(self, mappings, trade_row, leg_assignments, ctx,
                   with_leg_object, n + 1, SetKey(target, mappings.v[n][1], value.val))

\* "for field_name, field_config in mappings.items(): target[field_name] = ..."
\* from item n on; with_leg_object says whether leg_object=leg is passed
MapFields(self, mappings, trade_row, leg_assignments, ctx, with_leg_object, n, target) ==
    IF n > Len(mappings.v) THEN Ok(target)
    ELSE MapFieldsItem(self, mappings, trade_row, leg_assignments, ctx, with_leg_object,
             n, target,
             _process_field_mapping(self, mappings.v[n][2], trade_row, leg_assignments,
                 IF with_leg_object
                 THEN [k \in (DOMAIN ctx) \cup {"leg_object"} |->
                          IF k = "leg_object" THEN target ELSE ctx[k]]
                 ELSE ctx))

_build_header(self, trade_row, leg_assignments) ==
    MapFields(self, Section(self.config, "header_mappings"), trade_row, leg_assignments,
              [receive_leg_idx |-> leg_assignments.receive_leg_source],
              FALSE, 1, PyDict(<<>>))

\* condition_config.get('condition', '') handed to _check_condition
ConditionMet(condition_config, trade_row, leg_idx) ==
    LET condition == IF HasKey(condition_config, <<"condition">>)
                     THEN GetKey(condition_config, <<"condition">>) ELSE PyStr(<<>>)
    IN  IF IsNone(condition) THEN Ok(FALSE)
        ELSE IF condition.t # "str" THEN Raise("AttributeError")
        ELSE _check_condition(condition.v, trade_row, leg_idx)

RECURSIVE ConditionalMappings(_, _, _, _, _, _, _)
RECURSIVE ConditionalItem(_, _, _, _, _, _, _, _, _)

\* one conditional mapping: met is what _check_condition gave, applied is the
\* leg with the fields of the mapping added
ConditionalItem(self, conditional_mappings, trade_row, leg_assignments, ctx, n, leg, met, applied) ==
    IF Raised(met) THEN Raise(met.exc)
    ELSE IF ~met.val
    THEN ConditionalMappings(self, conditional_mappings, trade_row,
                             leg_assignments, ctx, n + 1, leg)
    ELSE IF Raised(applied) THEN applied
    ELSE ConditionalMappings(self, conditional_mappings, trade_row,
                             leg_assignments, ctx, n + 1, applied.val)

\* condition_config.get('fields', {})
ConditionalFields(condition_config) ==
    IF HasKey(condition_config, <<"fields">>)
    THEN GetKey(condition_config, <<"fields">>) ELSE PyDict(<<>>)

\* the loop over conditional_leg_mappings, from item n on
ConditionalMappings(self, conditional_mappings, trade_row, leg_assignments, ctx, n, leg) ==
    IF n > Len(conditional_mappings.v) THEN Ok(leg)
    ELSE ConditionalItem(self, conditional_mappings, trade_row, leg_assignments, ctx, n, leg,
             ConditionMet(conditional_mappings.v[n][2], trade_row, ctx.leg_idx),
             MapFields(self, ConditionalFields(conditional_mappings.v[n][2]), trade_row,
                       leg_assignments, ctx, TRUE, 1, leg))

\* the conditional mappings applied to the leg the leg mappings gave
WithConditionals(self, trade_row, leg_assignments, ctx, base) ==
    IF Raised(base) THEN base
    ELSE ConditionalMappings(self, Section(self.config, "conditional_leg_mappings"),
                             trade_row, leg_assignments, ctx, 1, base.val)

_build_single_leg_from_config(self, trade_row, leg_idx, is_receive, leg_assignments) ==
    WithConditionals(self, trade_row, leg_assignments,
        [leg_idx |-> leg_idx, is_receive |-> is_receive],
        MapFields(self, Section(self.config, "leg_mappings"), trade_row, leg_assignments,
                  [leg_idx |-> leg_idx, is_receive |-> is_receive], FALSE, 1,
                  PyDict(<<>>)))

ReceiveLegSeed ==
    PyDict(<< <<<<"legId">>, Str("Pata-Activa")>>,
              <<<<"payerPartyReference">>, Str("OurCounterparty")>>,
              <<<<"receiverPartyReference">>, Str("ThisBank")>> >>)

PayLegSeed ==
    PyDict(<< <<<<"legId">>, Str("Pata-Pasiva")>>,
              <<<<"payerPartyReference">>, Str("ThisBank")>>,
              <<<<"receiverPartyReference">>, Str("OurCounterparty")>> >>)

\* the legs in the order of their source legs instead of receive first
LegsInSourceOrder(receive_leg_idx, pay_leg_idx, receive_fields, pay_fields) ==
    LET receive == <<UpdateFrom(ReceiveLegSeed, receive_fields.val, 1)>>
        pay == <<UpdateFrom(PayLegSeed, pay_fields.val, 1)>>
    IN  IF ~IsNone(receive_leg_idx) /\ Raised(receive_fields) THEN receive_fields
        ELSE IF ~IsNone(pay_leg_idx) /\ Raised(pay_fields) THEN pay_fields
        ELSE IF IsNone(receive_leg_idx) /\ IsNone(pay_leg_idx) THEN Ok(PyList(<<>>))
        ELSE IF IsNone(pay_leg_idx) THEN Ok(PyList(receive))
        ELSE IF IsNone(receive_leg_idx) THEN Ok(PyList(pay))
        ELSE IF receive_leg_idx.v < pay_leg_idx.v THEN Ok(PyList(receive \o pay))
        ELSE Ok(PyList(pay \o receive))

\* the legs list: the receive leg when a source leg has the receive role, then
\* the pay leg when one has the pay role
Legs(receive_leg_idx, pay_leg_idx, receive_fields, pay_fields) ==
    LET legs == IF ~IsNone(receive_leg_idx)
                THEN <<UpdateFrom(ReceiveLegSeed, receive_fields.val, 1)>> ELSE <<>>
    IN  IF ~IsNone(receive_leg_idx) /\ Raised(receive_fields) THEN receive_fields
        ELSE IF IsNone(pay_leg_idx) THEN Ok(PyList(legs))
        ELSE IF Raised(pay_fields) THEN pay_fields
        ELSE Ok(PyList(Append(legs, UpdateFrom(PayLegSeed, pay_fields.val, 1))))

_build_legs(self, trade_row, leg_assignments) ==
    Legs(leg_assignments.receive_leg_source, leg_assignments.pay_leg_source,
         _build_single_leg_from_config(self, trade_row,
             leg_assignments.receive_leg_source, TRUE, leg_assignments),
         _build_single_leg_from_config(self, trade_row,
             leg_assignments.pay_leg_source, FALSE, leg_assignments))

\* a handler that catches missing fields only
CatchesKeyErrorOnly(exc) == exc = "KeyError"

\* "except Exception": every exception the mapper raises is one
Catches(exc) == exc \in {"KeyError", "ValueError", "TypeError", "AttributeError"}

\* transformed_trade = {"header": ..., "legs": ...}
Trade(header, legs) ==
    IF Raised(header) THEN header
    ELSE IF Raised(legs) THEN legs
    ELSE Ok(PyDict(<< <<<<"header">>, header.val>>, <<<<"legs">>, legs.val>> >>))

\* the try block after the leg assignments are determined
TradeFrom(self, trade_row, leg_assignments) ==
    IF Raised(leg_assignments) THEN Raise(leg_assignments.exc)
    ELSE Trade(_build_header(self, trade_row, leg_assignments.val),
               _build_legs(self, trade_row, leg_assignments.val))

\* the body of the try block of _transform_single_trade
TransformBody(self, trade_row) ==
    TradeFrom(self, trade_row, _determine_leg_assignments(self.config, trade_row))

\* trade_row.get('deal_number', 'No deal number')
DealNumber(trade_row) ==
    IF <<"deal_number">> \in DOMAIN trade_row
    THEN trade_row[<<"deal_number">>] ELSE <<"No deal number">>

\* try/except around the body: what is returned or escapes, and what is logged
TryExcept(body, deal_number) ==
    IF ~Raised(body) THEN [exc |-> "none", val |-> body.val, logged |-> <<>>]
    ELSE IF Catches(body.exc)
    THEN [exc |-> "none", val |-> PyNone,
          logged |-> <<[deal_number |-> deal_number, error |-> body.exc]>>]
    ELSE [exc |-> body.exc, val |-> PyNone, logged |-> <<>>]

_transform_single_trade(self, trade_row) ==
    TryExcept(TransformBody(self, trade_row), DealNumber(trade_row))

(***************************************************************************)
(* The configurations and the input files of the model.                    *)
(***************************************************************************)
Dict1(k, x) == PyDict(<< <<<<k>>, x>> >>)
Dict2(k1, x1, k2, x2) == PyDict(<< <<<<k1>>, x1>>, <<<<k2>>, x2>> >>)

LegField(i, name) == <<"legs[", i, "]." \o name>>
RoleField(i) == LegField(i, "leg_generator.rp")

\* the header_mappings sections: none; plain fields; a field of the receive
\* leg; the same with a fallback_source
HeaderSections ==
    {PyNone,
     Dict2("tradeId", Dict1("source_field", Str("deal_number")),
           "source", Dict1("dynamic_value", Str("source_parameter"))),
     Dict1("notional", Dict2("source_field", PyStr(LegField("{receive_leg_idx}", "x")),
                             "transformation", Str("integer"))),
     Dict1("notional", Dict2("source_field", PyStr(LegField("{receive_leg_idx}", "x")),
                             "fallback_source", Str("deal_number")))}

\* the leg_mappings sections: none; a leg field; one that sets legId itself;
\* a role-based value and a nested object
LegSections ==
    {PyNone,
     Dict1("x", Dict1("source_field", PyStr(LegField("{idx}", "x")))),
     Dict2("legId", Dict1("static_value", Str("Custom")),
           "x", Dict2("source_field", PyStr(LegField("{idx}", "x")),
                      "transformation", Str("integer"))),
     Dict2("side", Dict2("receive_leg", Str("R"), "pay_leg", Str("P")),
           "party", Dict1("bank", Dict1("static_value", Str("ThisBank"))))}

\* the conditional_leg_mappings sections: none; one condition with a
\* reference to a field built before
ConditionalSections ==
    {PyNone,
     Dict1("has_x",
           Dict2("condition", PyStr(LegField("{idx}", "x") \o <<" is not empty">>),
                 "fields", Dict1("y", Dict1("reference_field", Str("x")))))}

\* the leg_assignment sections: none (the defaults); the role codes swapped
LegAssignmentSections ==
    {PyNone,
     [role_field |-> <<"legs[", "{idx}", "].leg_generator.rp">>,
      roles |-> [receive |-> <<"P">>, pay |-> <<"A">>]]}

\* the loaded YAML mapping: a section that is absent is no key of it
MakeConfig(header, leg, conditional, assignment) ==
    LET present == {k \in {"header_mappings", "leg_mappings",
                           "conditional_leg_mappings", "leg_assignment"} :
                       CASE k = "header_mappings" -> header # PyNone
                         [] k = "leg_mappings" -> leg # PyNone
                         [] k = "conditional_leg_mappings" -> conditional # PyNone
                         [] k = "leg_assignment" -> assignment # PyNone}
    IN  [k \in present |->
            CASE k = "header_mappings" -> header
              [] k = "leg_mappings" -> leg
              [] k = "conditional_leg_mappings" -> conditional
              [] k = "leg_assignment" -> assignment]

Configs ==
    {MakeConfig(h, l, c, a) : h \in HeaderSections, l \in LegSections,
                              c \in ConditionalSections, a \in LegAssignmentSections}

\* a raw record: the role marker of each physical leg ("" for none), the x
\* field of leg 0, and the x field of leg 1 ("" for none)
MakeRow(rp0, rp1, x1) ==
    LET present == {<<"deal_number">>, LegField("0", "x")}
                   \cup (IF rp0 # "" THEN {RoleField("0")} ELSE {})
                   \cup (IF rp1 # "" THEN {RoleField("1")} ELSE {})
                   \cup (IF x1 # "" THEN {LegField("1", "x")} ELSE {})
    IN  [field \in present |->
            IF field = <<"deal_number">> THEN <<"D1">>
            ELSE IF field = LegField("0", "x") THEN <<"1">>
            ELSE IF field = RoleField("0") THEN <<rp0>>
            ELSE IF field = RoleField("1") THEN <<rp1>>
            ELSE <<x1>>]

\* the receive and pay codes of the model, an unrecognised marker, no marker
RoleMarkers == {"A", "P", "X", ""}

Rows == {MakeRow(rp0, rp1, x1) : rp0 \in RoleMarkers, rp1 \in RoleMarkers,
                                 x1 \in {"2", "N/A", ""}}

\* the rows of the files of several rows
BatchRows ==
    {MakeRow("A", "P", "2"), MakeRow("A", "P", ""), MakeRow("", "P", "2"),
     MakeRow("P", "A", "N/A")}

InputFiles == {<<row>> : row \in Rows} \cup SeqsUpTo(BatchRows, MaxRows)

(***************************************************************************)
(* transform_csv_to_json as a state machine: one step per row of the loop, *)
(* then the write.                                                         *)
(***************************************************************************)
MapInit ==
    /\ NoMain
    /\ mapper \in {[config |-> cfg, source |-> "banco"] : cfg \in Configs}
    /\ rows \in InputFiles
    /\ idx = 1
    /\ returned = <<>>
    /\ transformed_trades = <<>>
    /\ log = <<>>
    /\ output = PyNone
    /\ pc = "loop"
    /\ json1 = PyDict(<<>>)
    /\ json2 = PyDict(<<>>)
    /\ FreshComparators
    /\ NoCalls

\* a loop that appends whatever the transform returned
AlwaysTruthy(x) == TRUE

\* "if transformed_trade:" for a dict or None
IsTruthy(x) == ~IsNone(x) /\ x.v # <<>>

\* an iteration that leaves a mark in the mapper
TransformRowMarkingSource ==
    /\ pc = "loop"
    /\ idx <= Len(rows)
    /\ \E transformed_trade \in {_transform_single_trade(mapper, rows[idx])} :
           IF transformed_trade.exc # "none"
           THEN /\ pc' = "raised"
                /\ UNCHANGED <<idx, returned, transformed_trades, log>>
           ELSE /\ returned' = Append(returned, transformed_trade.val)
                /\ transformed_trades' =
                       IF IsTruthy(transformed_trade.val)
                       THEN Append(transformed_trades, transformed_trade.val)
                       ELSE transformed_trades
                /\ log' = log \o transformed_trade.logged
                /\ idx' = idx + 1
                /\ pc' = pc
    /\ mapper' = [mapper EXCEPT !.source = "used"]
    /\ UNCHANGED <<rows, output>>
    /\ UNCHANGED diffVars
    /\ UNCHANGED callVars
    /\ UNCHANGED mainVars

\* one iteration of the loop over trades_data; an exception that escapes
\* _transform_single_trade ends transform_csv_to_json
TransformRow ==
    /\ pc = "loop"
    /\ idx <= Len(rows)
    /\ \E transformed_trade \in {_transform_single_trade(mapper, rows[idx])} :
           IF transformed_trade.exc # "none"
           THEN /\ pc' = "raised"
                /\ UNCHANGED <<idx, returned, transformed_trades, log>>
           ELSE /\ returned' = Append(returned, transformed_trade.val)
                /\ transformed_trades' =
                       IF IsTruthy(transformed_trade.val)
                       THEN Append(transformed_trades, transformed_trade.val)
                       ELSE transformed_trades
                /\ log' = log \o transformed_trade.logged
                /\ idx' = idx + 1
                /\ pc' = pc
    /\ UNCHANGED <<mapper, rows, output>>
    /\ UNCHANGED diffVars
    /\ UNCHANGED callVars
    /\ UNCHANGED mainVars

\* _write_json(transformed_trades, output_file), after the loop
WriteJson ==
    /\ pc = "loop"
    /\ idx > Len(rows)
    /\ output' = Dict1("trades", PyList(transformed_trades))
    /\ pc' = "done"
    /\ UNCHANGED <<mapper, rows, idx, returned, transformed_trades, log>>
    /\ UNCHANGED diffVars
    /\ UNCHANGED callVars
    /\ UNCHANGED mainVars

MapNext == TransformRow \/ WriteJson

SpecMap == MapInit /\ [][MapNext]_vars

(***************************************************************************)
(* get_friendly_description called on one path, by both comparators, over  *)
(* a loaded translations table.                                            *)
(***************************************************************************)
\* the keys a translations file of the model may hold, in file order
LabelKeys ==
    << <<"l", "e", "g", "s", "[", "0", "]", ".", "n">>,
       <<"l", "e", "g", "s", "[", "*", "]", ".", "n">>,
       <<"l", "e", "g", "s", ".", "n">>,
       <<"l", "e", "g", "s">>,
       <<"s", "[", "0", "]">>,
       <<"n">> >>

\* the paths asked for
LabelPaths ==
    { <<"l", "e", "g", "s", "[", "0", "]", ".", "n">>,
      <<"l", "e", "g", "s", "[", "1", "]", ".", "n">>,
      <<"l", "e", "g", "s", ".", "n">>,
      <<"l", "e", "g", "s", "[", "0", "]", "[", "1", "]", ".", "n">>,
      <<"n">>,
      <<"b">> }

\* the description a file gives a key; a file may leave one description empty
Description(k, blank) == IF k = blank THEN <<>> ELSE <<"#">> \o LabelKeys[k]

RECURSIVE Reverse(_)
Reverse(s) == IF s = <<>> THEN <<>> ELSE Append(Reverse(Tail(s)), Head(s))

\* json.load of a translations file holding the keys S
TableOver(S, reversed, blank) ==
    LET chosen == SelectSeq([k \in DOMAIN LabelKeys |-> k], LAMBDA k : k \in S)
        ordered == IF reversed THEN Reverse(chosen) ELSE chosen
    IN  [n \in DOMAIN ordered |-> <<LabelKeys[ordered[n]], Description(ordered[n], blank)>>]

Tables ==
    {TableOver(S, reversed, blank) :
        S \in SUBSET DOMAIN LabelKeys, reversed \in BOOLEAN, blank \in 0..Len(LabelKeys)}

LabelInit ==
    /\ NoMain
    /\ translations \in Tables
    /\ asked \in LabelPaths
    /\ label = NoLabel
    /\ pdfLabel = NoLabel
    /\ json1 = PyDict(<<>>)
    /\ json2 = PyDict(<<>>)
    /\ NoComparison
    /\ NoMapper
    /\ NoFieldCall
    /\ NoTransformationCall

\* json_compare.JSONComparator.get_friendly_description(asked)
GetFriendlyDescription ==
    /\ ~label.called
    /\ label' = [called |-> TRUE, text |-> get_friendly_description(translations, asked)]
    /\ UNCHANGED <<asked, pdfLabel, rule, record, context, resolved, raw, kind, converted>>
    /\ UNCHANGED diffVars
    /\ UNCHANGED mapVars
    /\ UNCHANGED mainVars

\* json_pdf_report.JSONComparator.get_friendly_description(asked)
PdfGetFriendlyDescription ==
    /\ ~pdfLabel.called
    /\ pdfLabel' = [called |-> TRUE,
                    text |-> pdf_get_friendly_description(translations, asked)]
    /\ UNCHANGED <<asked, label, rule, record, context, resolved, raw, kind, converted>>
    /\ UNCHANGED diffVars
    /\ UNCHANGED mapVars
    /\ UNCHANGED mainVars

LabelNext == GetFriendlyDescription \/ PdfGetFriendlyDescription

SpecLabel == LabelInit /\ [][LabelNext]_vars

(***************************************************************************)
(* _apply_transformation called on one value, under a configuration with   *)
(* a date format and transformation tables.                                *)
(***************************************************************************)
\* transformations sections: none; settlement types and fixing lags; these
\* and rate types
SettlementTable == [code \in {<<"C">>, <<"E">>} |->
                       IF code = <<"C">> THEN Str("CASH") ELSE Str("PHYSICAL")]
RateTable == [code \in {<<"C">>} |-> Str("Fixed")]
LagTable == [code \in {<<"2">>} |-> PyInt(0)]

TableSections ==
    {NoTables,
     [name \in {"settlementType", "fx_fixing_lag"} |->
         IF name = "settlementType" THEN SettlementTable ELSE LagTable],
     [name \in {"settlementType", "rateType", "fx_fixing_lag"} |->
         CASE name = "settlementType" -> SettlementTable
           [] name = "rateType" -> RateTable
           [] OTHER -> LagTable]}

\* date_format values: none (the default), the four known ones, an unknown one
DateFormats == {"", "YYYY-MM-DD", "DD/MM/YYYY", "MM/DD/YYYY", "YYYY/MM/DD", "ISO"}

TransformConfig(date_format, tables) ==
    [key \in (IF date_format = "" THEN {} ELSE {"date_format"})
             \cup (IF tables = NoTables THEN {} ELSE {"transformations"}) |->
        IF key = "date_format" THEN date_format ELSE tables]

TransformConfigs ==
    {TransformConfig(date_format, tables) :
        date_format \in DateFormats, tables \in TableSections}

\* the raw values: dates in each format, an ambiguous one, impossible ones,
\* codes, numbers, the empty string
RawValues ==
    { <<"2025", "-", "09", "-", "17">>,
      <<"17", "/", "09", "/", "2025">>,
      <<"09", "/", "17", "/", "2025">>,
      <<"2025", "/", "09", "/", "17">>,
      <<"3", "/", "12", "/", "2025">>,
      <<"2025", "-", "13", "-", "31">>,
      <<"31", "/", "31", "/", "2025">>,
      <<"N/A">>, <<"C">>, <<"E">>, <<"X">>, <<"2">>, <<"1", ",", "000">>, <<>> }

TransformationTypes ==
    {"date_format", "integer", "float", "notional", "fx_fixing_lag",
     "settlementType", "rateType", "dayCountFraction"}

TransformInit ==
    /\ NoMain
    /\ mapper \in {[config |-> cfg, source |-> "banco"] : cfg \in TransformConfigs}
    /\ raw \in RawValues
    /\ kind \in TransformationTypes
    /\ converted = Pending
    /\ rows = <<>>
    /\ idx = 1
    /\ returned = <<>>
    /\ transformed_trades = <<>>
    /\ log = <<>>
    /\ output = PyNone
    /\ pc = "idle"
    /\ json1 = PyDict(<<>>)
    /\ json2 = PyDict(<<>>)
    /\ FreshComparators
    /\ NoFieldCall
    /\ NoLabelCall

\* self._apply_transformation(raw, kind)
ApplyTransformation ==
    /\ converted.exc = "pending"
    /\ converted' = _apply_transformation(mapper.config, raw, kind)
    /\ UNCHANGED <<raw, kind, rule, record, context, resolved, asked, label, pdfLabel>>
    /\ UNCHANGED diffVars
    /\ UNCHANGED mapVars
    /\ UNCHANGED mainVars

TransformNext == ApplyTransformation

SpecTransform == TransformInit /\ [][TransformNext]_vars

(***************************************************************************)
(* _process_field_mapping on its own: one rule of a leg resolved against   *)
(* one record.                                                             *)
(***************************************************************************)
Dict3(k1, x1, k2, x2, k3, x3) == PyDict(<< <<<<k1>>, x1>>, <<<<k2>>, x2>>, <<<<k3>>, x3>> >>)

\* a value for each role
RoleRule == Dict2("receive_leg", Str("R"), "pay_leg", Str("P"))

\* a field of the leg, as it is and as an integer
SourceFieldRules ==
    {Dict1("source_field", PyStr(LegField("{idx}", "a"))),
     Dict2("source_field", PyStr(LegField("{idx}", "a")),
           "transformation", Str("integer"))}

PrimaryFallback ==
    Dict2("primary", PyStr(LegField("{idx}", "a")),
          "fallback", PyStr(LegField("{idx}", "b")))

\* a primary and a fallback field, as they are, as integers, through a table
PrimaryFallbackRules ==
    {Dict1("source_fields", PrimaryFallback),
     Dict2("source_fields", PrimaryFallback, "transformation", Str("integer")),
     Dict2("source_fields", PrimaryFallback, "transformation", Str("settlementType"))}

PeriodFields ==
    Dict3("years", PyStr(LegField("{idx}", "years")),
          "months", PyStr(LegField("{idx}", "months")),
          "days", PyStr(LegField("{idx}", "days")))

PeriodFieldsWithDates ==
    PyDict(PeriodFields.v \o
           << <<<<"start_date">>, PyStr(LegField("{idx}", "start"))>>,
              <<<<"end_date">>, PyStr(LegField("{idx}", "end"))>> >>)

\* a period of each calculation type, without and with the dates of the trade
PeriodRules ==
    {Dict2("source_fields", source_fields, "calculation_type", Str(calc_type)) :
        source_fields \in {PeriodFields, PeriodFieldsWithDates},
        calc_type \in {"payment_frequency", "term_frequency"}}

\* rules that carry the keys of more than one kind of rule
MixedRules ==
    {Dict2("static_value", Str("S"), "source_field", PyStr(LegField("{idx}", "a"))),
     Dict2("dynamic_value", Str("source_parameter"),
           "source_field", PyStr(LegField("{idx}", "a"))),
     Dict2("source_field", PyStr(LegField("{idx}", "a")),
           "reference_field", PyStr(<<"a">>)),
     Dict2("source_fields", PyDict(PrimaryFallback.v \o PeriodFields.v),
           "calculation_type", Str("payment_frequency")),
     Dict2("fallback_source", PyStr(LegField("{idx}", "b")),
           "reference_field", PyStr(<<"z">>)),
     Dict3("reference_field", PyStr(<<"z">>), "receive_leg", Str("R"),
           "pay_leg", Str("P"))}

Rules ==
    {RoleRule} \cup SourceFieldRules \cup PrimaryFallbackRules \cup PeriodRules
    \cup MixedRules

\* a cell of the CSV row: none (no such column) or one string
Cells == {<<>>, << <<>> >>, << <<"N/A">> >>, << <<"2">> >>, << <<"C">> >>}

\* a record of leg 0 with the cells a and b
FieldsRecord(a, b) ==
    LET present == (IF a # <<>> THEN {LegField("0", "a")} ELSE {})
                   \cup (IF b # <<>> THEN {LegField("0", "b")} ELSE {})
    IN  [field \in present |-> IF field = LegField("0", "a") THEN a[1] ELSE b[1]]

\* start and end of the trade: none; two years; two years and three months;
\* an end that is no date
TradeDates ==
    {<<>>,
     << <<"2025", "-", "09", "-", "17">>, <<"2027", "-", "09", "-", "17">> >>,
     << <<"2025", "-", "09", "-", "17">>, <<"2027", "-", "12", "-", "17">> >>,
     << <<"2025", "-", "09", "-", "17">>, <<"N/A">> >>}

\* a record of leg 0 with a period and the dates of the trade
PeriodRecord(years, months, days, dates) ==
    LET present == {LegField("0", "years"), LegField("0", "months"),
                    LegField("0", "days")}
                   \cup (IF dates # <<>>
                         THEN {LegField("0", "start"), LegField("0", "end")} ELSE {})
    IN  [field \in present |->
            CASE field = LegField("0", "years") -> <<years>>
              [] field = LegField("0", "months") -> <<months>>
              [] field = LegField("0", "days") -> <<days>>
              [] field = LegField("0", "start") -> dates[1]
              [] OTHER -> dates[2]]

Records ==
    {FieldsRecord(a, b) : a \in Cells, b \in Cells}
    \cup {PeriodRecord(years, months, days, dates) :
             years \in {"0", "2", "25", "30"}, months \in {"0", "6", "N/A"},
             days \in {"0", "17"}, dates \in TradeDates}

\* **context of the call made for a leg: leg_idx=..., is_receive=...
Contexts ==
    {[leg_idx |-> PyInt(leg_idx), is_receive |-> is_receive] :
        leg_idx \in 0..1, is_receive \in BOOLEAN}

\* the assignments of a record whose only leg is the one being built
AssignmentsOf(ctx) ==
    [receive_leg_source |-> IF ctx.is_receive THEN ctx.leg_idx ELSE PyNone,
     pay_leg_source |-> IF ctx.is_receive THEN PyNone ELSE ctx.leg_idx]

RuleInit ==
    /\ NoMain
    /\ mapper \in {[config |-> TransformConfig("YYYY-MM-DD", tables), source |-> "banco"] :
                      tables \in TableSections}
    /\ rule \in Rules
    /\ record \in Records
    /\ context \in Contexts
    /\ resolved = Pending
    /\ rows = <<>>
    /\ idx = 1
    /\ returned = <<>>
    /\ transformed_trades = <<>>
    /\ log = <<>>
    /\ output = PyNone
    /\ pc = "idle"
    /\ json1 = PyDict(<<>>)
    /\ json2 = PyDict(<<>>)
    /\ FreshComparators
    /\ NoTransformationCall
    /\ NoLabelCall

\* self._process_field_mapping(rule, record, leg_assignments, **context)
ResolveField ==
    /\ resolved.exc = "pending"
    /\ resolved' = _process_field_mapping(mapper, rule, record,
                                          AssignmentsOf(context), context)
    /\ UNCHANGED <<rule, record, context, raw, kind, converted, asked, label, pdfLabel>>
    /\ UNCHANGED diffVars
    /\ UNCHANGED mapVars
    /\ UNCHANGED mainVars

RuleNext == ResolveField

SpecRule == RuleInit /\ [][RuleNext]_vars

(***************************************************************************)
(* _check_condition on its own: the condition of one conditional mapping   *)
(* checked against one record.                                             *)
(***************************************************************************)
\* "legs[{idx}].a"
ConditionField == LegField("{idx}", "a")

\* the condition strings: none; the two supported forms; a form that is not
\* supported; a list of values that itself holds ' in ['
Conditions ==
    { <<>>,
      ConditionField \o <<" in [", "'", "C", "'", ", ", "'", "2", "'", "]">>,
      ConditionField \o <<" is not empty">>,
      ConditionField \o <<" == ", "'", "C", "'">>,
      ConditionField \o <<" in [", "'", "C", " in [", "'", "]">> }

\* the entries of conditional_leg_mappings: with a condition, and without one
ConditionConfigs ==
    {Dict1("fields", PyDict(<<>>))}
    \cup {Dict2("condition", PyStr(condition), "fields", PyDict(<<>>)) :
             condition \in Conditions}

ConditionInit ==
    /\ NoMain
    /\ mapper = [config |-> TransformConfig("YYYY-MM-DD", NoTables), source |-> "banco"]
    /\ rule \in ConditionConfigs
    /\ record \in {FieldsRecord(a, b) : a \in Cells, b \in Cells}
    /\ context \in Contexts
    /\ resolved = Pending
    /\ rows = <<>>
    /\ idx = 1
    /\ returned = <<>>
    /\ transformed_trades = <<>>
    /\ log = <<>>
    /\ output = PyNone
    /\ pc = "idle"
    /\ json1 = PyDict(<<>>)
    /\ json2 = PyDict(<<>>)
    /\ FreshComparators
    /\ NoTransformationCall
    /\ NoLabelCall

\* the bool a call returned, as a value
BoolOutcome(outcome) ==
    IF Raised(outcome) THEN Raise(outcome.exc) ELSE Ok(PyBool(outcome.val))

\* self._check_condition(condition_config.get('condition', ''), trade_row, leg_idx)
CheckCondition ==
    /\ resolved.exc = "pending"
    /\ resolved' = BoolOutcome(ConditionMet(rule, record, context.leg_idx))
    /\ UNCHANGED <<rule, record, context, raw, kind, converted, asked, label, pdfLabel>>
    /\ UNCHANGED diffVars
    /\ UNCHANGED mapVars
    /\ UNCHANGED mainVars

ConditionNext == CheckCondition

SpecCondition == ConditionInit /\ [][ConditionNext]_vars

(***************************************************************************)
(* _build_single_leg_from_config on its own: the leg mappings and the      *)
(* conditional mappings of one configuration applied to one record.        *)
(***************************************************************************)
Reference(ref_path) == Dict1("reference_field", PyStr(ref_path))

SourceA == Dict1("source_field", PyStr(LegField("{idx}", "a")))

\* the leg_mappings sections: a field; a field and a reference to it; a
\* field and a reference to nothing; a nested object and a dotted reference
\* into it
ReferenceLegSections ==
    {Dict1("a", SourceA),
     Dict2("a", SourceA, "y", Reference(<<"a">>)),
     Dict2("a", SourceA, "y", Reference(<<"z">>)),
     Dict2("p", Dict1("bank", Dict1("static_value", Str("ThisBank"))),
           "y", Reference(<<"p", ".", "bank">>))}

\* the conditional_leg_mappings sections: none; under a condition on the
\* field b, a reference to the field a, to nothing, into the nested object
ReferenceConditionalSections ==
    {PyNone}
    \cup {Dict1("has_b",
                Dict2("condition", PyStr(LegField("{idx}", "b") \o <<" is not empty">>),
                      "fields", Dict1("w", Reference(ref_path)))) :
             ref_path \in {<<"a">>, <<"z">>, <<"p", ".", "bank">>}}

LegInit ==
    /\ NoMain
    /\ mapper \in {[config |-> MakeConfig(PyNone, leg, conditional, PyNone),
                    source |-> "banco"] :
                      leg \in ReferenceLegSections,
                      conditional \in ReferenceConditionalSections}
    /\ rule = PyNone
    /\ record \in {FieldsRecord(a, b) : a \in Cells, b \in Cells}
    /\ context \in Contexts
    /\ resolved = Pending
    /\ rows = <<>>
    /\ idx = 1
    /\ returned = <<>>
    /\ transformed_trades = <<>>
    /\ log = <<>>
    /\ output = PyNone
    /\ pc = "idle"
    /\ json1 = PyDict(<<>>)
    /\ json2 = PyDict(<<>>)
    /\ FreshComparators
    /\ NoTransformationCall
    /\ NoLabelCall

\* self._build_single_leg_from_config(trade_row, leg_idx, is_receive, leg_assignments)
BuildSingleLeg ==
    /\ resolved.exc = "pending"
    /\ resolved' = _build_single_leg_from_config(mapper, record, context.leg_idx,
                       context.is_receive, AssignmentsOf(context))
    /\ UNCHANGED <<rule, record, context, raw, kind, converted, asked, label, pdfLabel>>
    /\ UNCHANGED diffVars
    /\ UNCHANGED mapVars
    /\ UNCHANGED mainVars

LegNext == BuildSingleLeg

SpecLeg == LegInit /\ [][LegNext]_vars

(***************************************************************************)
(* Properties of the differ.                                               *)
(***************************************************************************)
Flat1 == flatten_json(json1, <<>>)
Flat2 == flatten_json(json2, <<>>)

HasEntry(diffs, p, diff_type) ==
    \E i \in DOMAIN diffs : diffs[i].path = p /\ diffs[i].difference_type = diff_type

HasPath(diffs, p) == \E i \in DOMAIN diffs : diffs[i].path = p

\* C3: every flattened path present in exactly one of A and B has an entry in
\* compare_jsons(A, B): 'added' when only in B, 'removed' when only in A.
C3_OneSidedPathsListed ==
    calls.cmp > 0 =>
        /\ \A p \in (DOMAIN Flat2) \ (DOMAIN Flat1) : HasEntry(differences, p, "added")
        /\ \A p \in (DOMAIN Flat1) \ (DOMAIN Flat2) : HasEntry(differences, p, "removed")

\* C4: for every flattened path present in both A and B: leaf values of different
\* runtime types give 'type_changed'; same type and unequal values give
\* 'modified'; equal values give no entry.
C4_CommonPathsClassified ==
    calls.cmp > 0 =>
        \A p \in (DOMAIN Flat1) \cap (DOMAIN Flat2) :
            IF Flat1[p].t # Flat2[p].t THEN HasEntry(differences, p, "type_changed")
            ELSE IF Flat1[p].v # Flat2[p].v THEN HasEntry(differences, p, "modified")
            ELSE ~HasPath(differences, p)

\* C5: compare_jsons(A, A) returns the empty list, on either comparator.
C5_DiffReflexive ==
    json1 = json2 =>
        /\ calls.cmp > 0 => differences = <<>>
        /\ calls.pdf > 0 => pdfDifferences = <<>>

\* a document with leaves (a null among them) compared with itself on both
C5_Witness ==
    /\ json1 = json2
    /\ calls.cmp > 0
    /\ calls.pdf > 0
    /\ \E p \in DOMAIN Flat1 : IsNone(Flat1[p])
    /\ \E p \in DOMAIN Flat1 : ~IsNone(Flat1[p])

\* C6: two different documents never flatten to the same map (so the tree can
\* be rebuilt from the flattened map).
C6_FlattenInjective ==
    json1 # json2 => Flat1 # Flat2

Ascending(diffs) ==
    \A i \in 1..(Len(diffs) - 1) : StrLess(diffs[i].path, diffs[i + 1].path)

\* C7: the list compare_jsons returns is in strictly ascending order of path,
\* on either comparator.
C7_DiffSortedByPath ==
    /\ calls.cmp > 0 => Ascending(differences)
    /\ calls.pdf > 0 => Ascending(pdfDifferences)

\* both comparators returned a list of two entries or more
C7_Witness ==
    /\ calls.cmp > 0 /\ Len(differences) >= 2
    /\ calls.pdf > 0 /\ Len(pdfDifferences) >= 2

DifferenceTypes == {"added", "removed", "modified", "type_changed"}

\* the number of entries of the list that are of the type
Count(diffs, diff_type) ==
    Cardinality({i \in DOMAIN diffs : diffs[i].difference_type = diff_type})

StatsMatch(st, diffs) ==
    /\ \A diff_type \in DifferenceTypes : st[diff_type] = Count(diffs, diff_type)
    /\ st.added + st.removed + st.modified + st.type_changed = Len(diffs)

\* C28: after every compare_jsons call, on either comparator and for any
\* sequence of calls on it, each stats counter equals the number of entries
\* of its type in the list the call returned, and the counters sum to the
\* length of the list.
C28_StatsCountTheEntries ==
    /\ calls.cmp > 0 => StatsMatch(stats, differences)
    /\ calls.pdf > 0 => StatsMatch(pdfStats, pdfDifferences)

\* the (path, difference_type) pairs of a list, in its order
PathTypes(diffs) ==
    [i \in DOMAIN diffs |-> <<diffs[i].path, diffs[i].difference_type>>]

\* C29: the list of (path, difference_type) the PDF comparator returns is the
\* list json_compare returns without the entry of the suppressed path, and
\* the suppressed path never appears in the PDF comparator's list.
C29_SameDifferUpToExclusion ==
    (calls.cmp > 0 /\ calls.pdf > 0) =>
        /\ PathTypes(pdfDifferences)
             = SelectSeq(PathTypes(differences), LAMBDA e : e[1] # suppressed_path)
        /\ ~HasPath(pdfDifferences, suppressed_path)

\* documents that differ at the suppressed path and at another one
C29_Witness ==
    /\ calls.cmp > 0
    /\ calls.pdf > 0
    /\ HasPath(differences, suppressed_path)
    /\ Len(differences) = 2
    /\ Len(pdfDifferences) = 1

\* C30: compare_jsons(A, B) of json_compare returns the empty list only if A
\* and B are the same document, nulls and empty containers included.
C30_EmptyDiffMeansEqual ==
    (calls.cmp > 0 /\ differences = <<>>) => json1 = json2

(***************************************************************************)
(* Properties of the mapper.                                               *)
(***************************************************************************)
SameValue(a, b) == a.t = b.t /\ a.v = b.v

IsTrade(x) ==
    /\ x.t = "dict"
    /\ Len(x.v) = 2
    /\ x.v[1][1] = <<"header">> /\ x.v[1][2].t = "dict"
    /\ x.v[2][1] = <<"legs">> /\ x.v[2][2].t = "list"

LegsOf(trade) == GetKey(trade, <<"legs">>).v

Failures == {n \in DOMAIN returned : IsNone(returned[n])}

\* C1: _transform_single_trade lets no exception escape: what it returns is
\* None, with the error logged, or a trade {header, legs} of at most 2 legs.
C1_NoExceptionEscapes ==
    /\ pc # "raised"
    /\ \A n \in DOMAIN returned :
          \/ IsNone(returned[n])
          \/ IsTrade(returned[n]) /\ Len(LegsOf(returned[n])) <= 2
    /\ Len(log) = Cardinality(Failures)

C1_Witness ==
    /\ pc = "done"
    /\ \E n \in DOMAIN returned : IsNone(returned[n])
    /\ \E n \in DOMAIN returned : ~IsNone(returned[n]) /\ Len(LegsOf(returned[n])) = 2
    /\ log # <<>>

\* what the transform gives for each of the first k rows of the file
Transforms(k) == [n \in 1..k |-> _transform_single_trade(mapper, rows[n]).val]

\* the transforms that succeeded, in the order of their rows
Successes(k) == SelectSeq(Transforms(k), LAMBDA t : ~IsNone(t))

SameList(xs, ys) ==
    /\ Len(xs) = Len(ys)
    /\ \A n \in DOMAIN xs : SameValue(xs[n], ys[n])

\* C2: the records are visited in input order; a record whose transform fails
\* is skipped and the later ones are still processed; the trades written are
\* the successful transforms, in input order.
C2_TradesAreSuccessesInOrder ==
    /\ pc \in {"loop", "done"}
    /\ Len(returned) = idx - 1
    /\ SameList(returned, Transforms(Len(returned)))
    /\ SameList(transformed_trades, Successes(Len(returned)))
    /\ pc = "done" =>
          /\ Len(returned) = Len(rows)
          /\ output.t = "dict"
          /\ Len(output.v) = 1
          /\ output.v[1][1] = <<"trades">>
          /\ output.v[1][2].t = "list"
          /\ SameList(output.v[1][2].v, Successes(Len(rows)))

C2_Witness ==
    /\ pc = "done"
    /\ Len(rows) = 2
    /\ IsNone(returned[1])
    /\ ~IsNone(returned[2])
    /\ Len(output.v[1][2].v) = 1

LegId(leg) == GetKey(leg, <<"legId">>)

\* C8: in every trade produced, legs[0] when present has legId 'Pata-Activa'
\* and legs[1] when present has legId 'Pata-Pasiva'.
C8_LegsInCanonicalOrder ==
    \A n \in DOMAIN returned :
        ~IsNone(returned[n]) =>
            LET legs == LegsOf(returned[n])
            IN  /\ Len(legs) >= 1 => LegId(legs[1]) = Str("Pata-Activa")
                /\ Len(legs) >= 2 => LegId(legs[2]) = Str("Pata-Pasiva")

\* the role codes of the configuration
RoleCodes(cfg) ==
    ConfigGet(ConfigGet(cfg, "leg_assignment", [x \in {} |-> <<>>]), "roles", DefaultRoles)

\* physical leg i of the record carries the role code
Carries(trade_row, i, code) ==
    /\ RoleField(ToString(i)) \in DOMAIN trade_row
    /\ trade_row[RoleField(ToString(i))] = code

FixedLegKeys == {<<"legId">>, <<"payerPartyReference">>, <<"receiverPartyReference">>}

\* no leg mapping of the configuration, conditional ones included, defines
\* one of the fixed leg fields
LegMappingsKeepFixedFields(cfg) ==
    /\ \A key \in FixedLegKeys : ~HasKey(Section(cfg, "leg_mappings"), key)
    /\ \A n \in DOMAIN Section(cfg, "conditional_leg_mappings").v :
          \A key \in FixedLegKeys :
              ~HasKey(ConditionalFields(Section(cfg, "conditional_leg_mappings").v[n][2]),
                      key)

\* the x field of the leg, where the leg mappings map it, is the x field of
\* physical leg i
BuiltFrom(cfg, leg, trade_row, i) ==
    HasKey(Section(cfg, "leg_mappings"), <<"x">>) =>
        /\ HasKey(leg, <<"x">>)
        /\ LegField(ToString(i), "x") \in DOMAIN trade_row
        /\ LET x == GetKey(leg, <<"x">>)
               source == trade_row[LegField(ToString(i), "x")]
           IN  IF x.t = "str" THEN x.v = source
               ELSE x.t = "int" /\ IsDigits(source) /\ x.v = DigitsValue(source, 1, 0)

IsLeg(leg, legId, payer, receiver) ==
    /\ LegId(leg) = Str(legId)
    /\ GetKey(leg, <<"payerPartyReference">>) = Str(payer)
    /\ GetKey(leg, <<"receiverPartyReference">>) = Str(receiver)

\* C9: a record with the receive code on one physical leg and the pay code
\* on the other, in either order, whose transform succeeds under leg mappings
\* that leave the fixed fields alone, gives exactly two legs: the receive leg
\* built from the receive-coded index, then the pay leg built from the
\* pay-coded index.
C9_RolesDecideTheLegs ==
    \A n \in DOMAIN returned : \A i \in {0, 1} :
        ( /\ Carries(rows[n], i, RoleCodes(mapper.config).receive)
          /\ Carries(rows[n], 1 - i, RoleCodes(mapper.config).pay)
          /\ LegMappingsKeepFixedFields(mapper.config)
          /\ ~IsNone(returned[n]) )
        => LET legs == LegsOf(returned[n])
           IN  /\ Len(legs) = 2
               /\ IsLeg(legs[1], "Pata-Activa", "OurCounterparty", "ThisBank")
               /\ BuiltFrom(mapper.config, legs[1], rows[n], i)
               /\ IsLeg(legs[2], "Pata-Pasiva", "ThisBank", "OurCounterparty")
               /\ BuiltFrom(mapper.config, legs[2], rows[n], 1 - i)

\* a file with both input orders, both transformed, the x field mapped
C9_Witness ==
    /\ pc = "done"
    /\ LegMappingsKeepFixedFields(mapper.config)
    /\ HasKey(Section(mapper.config, "leg_mappings"), <<"x">>)
    /\ \E n, m \in DOMAIN returned :
          /\ Carries(rows[n], 0, RoleCodes(mapper.config).receive)
          /\ Carries(rows[n], 1, RoleCodes(mapper.config).pay)
          /\ Carries(rows[m], 1, RoleCodes(mapper.config).receive)
          /\ Carries(rows[m], 0, RoleCodes(mapper.config).pay)
          /\ ~IsNone(returned[n])
          /\ ~IsNone(returned[m])

\* the role is claimed by one of the two physical legs
Claimed(trade_row, code) == \E i \in {0, 1} : Carries(trade_row, i, code)

\* every source field of both physical legs is there, with a number in it
SourceFieldsPresent(trade_row) ==
    \A i \in {0, 1} :
        /\ LegField(ToString(i), "x") \in DOMAIN trade_row
        /\ IsDigits(trade_row[LegField(ToString(i), "x")])

\* C10: a record in which not both roles are claimed, its source fields all
\* present, is transformed to a trade that omits the legs of the unclaimed
\* roles, whatever the header rules.
C10_UnclaimedRoleIsNoError ==
    \A n \in DOMAIN returned :
        LET receive == Claimed(rows[n], RoleCodes(mapper.config).receive)
            pay == Claimed(rows[n], RoleCodes(mapper.config).pay)
        IN  (SourceFieldsPresent(rows[n]) /\ ~(receive /\ pay))
            => /\ ~IsNone(returned[n])
               /\ Len(LegsOf(returned[n]))
                  = (IF receive THEN 1 ELSE 0) + (IF pay THEN 1 ELSE 0)

(***************************************************************************)
(* Properties of get_friendly_description.                                 *)
(***************************************************************************)
GenericForm(p) == ReSubIndex(p, <<"[", "*", "]">>, 1)
StrippedForm(p) == ReSubIndex(p, <<>>, 1)

\* the table keys that are substrings of the path, and the longest of them
SubstringKeys(tr, p) == {n \in DOMAIN tr : tr[n][1] # <<>> /\ IsSubstring(tr[n][1], p)}
LongestKeys(tr, p) ==
    {n \in SubstringKeys(tr, p) : \A m \in SubstringKeys(tr, p) : Len(tr[m][1]) <= Len(tr[n][1])}

SomeRuleMatches(tr, p) ==
    \/ TransHas(tr, p)
    \/ TransHas(tr, GenericForm(p))
    \/ TransHas(tr, StrippedForm(p))
    \/ SubstringKeys(tr, p) # {}

\* the label is what the first rule that matches gives
ByPriority(tr, p, text) ==
    IF TransHas(tr, p) THEN text = TransGet(tr, p)
    ELSE IF TransHas(tr, GenericForm(p)) THEN text = TransGet(tr, GenericForm(p))
    ELSE IF TransHas(tr, StrippedForm(p)) THEN text = TransGet(tr, StrippedForm(p))
    ELSE IF SubstringKeys(tr, p) # {} THEN \E n \in LongestKeys(tr, p) : text = tr[n][2]
    ELSE TRUE

\* C18: both comparators resolve a path by strict priority: the exact path,
\* then its [*] form, then its bracket-stripped form, then the description of
\* the longest table key that is a substring of the path.
C18_LabelByPriority ==
    /\ label.called => ByPriority(translations, asked, label.text)
    /\ pdfLabel.called => ByPriority(translations, asked, pdfLabel.text)

\* C19: when no rule matches, json_compare answers the empty string and
\* json_pdf_report the raw path; when some rule matches, both answer the same.
C19_FallbackIsTheOnlyDifference ==
    (label.called /\ pdfLabel.called) =>
        IF SomeRuleMatches(translations, asked)
        THEN label.text = pdfLabel.text
        ELSE label.text = <<>> /\ pdfLabel.text = asked

(***************************************************************************)
(* Properties of the transformations.                                      *)
(***************************************************************************)
Called(outcome) == outcome.exc # "pending"

\* the kinds _apply_transformation handles itself, before any table
BuiltInTypes == {"date_format", "integer", "float", "notional", "fx_fixing_lag"}

\* the table the configuration gives the kind
TableOf(cfg, name) == cfg.transformations[name]

IsTableDriven(cfg, name) ==
    /\ name \notin BuiltInTypes
    /\ "transformations" \in DOMAIN cfg
    /\ name \in DOMAIN cfg.transformations

\* C14: a table-driven transformation is strict: a raw value that is no key
\* of the table fails, and is never given a default; a raw value that is a
\* key gives exactly the table's value.
C14_TablesAreStrict ==
    (Called(converted) /\ IsTableDriven(mapper.config, kind)) =>
        IF raw \in DOMAIN TableOf(mapper.config, kind)
        THEN /\ converted.exc = "none"
             /\ SameValue(converted.val, TableOf(mapper.config, kind)[raw])
        ELSE converted.exc = "ValueError"

C14_Witness ==
    /\ Called(converted)
    /\ IsTableDriven(mapper.config, kind)
    /\ kind = "settlementType"
    /\ raw = <<"X">>
    /\ converted.exc = "ValueError"

\* the fallback formats, in the order they are tried
FallbackFormats == <<FmtDMYslash, FmtYMDdash, FmtMDYslash, FmtYMDslash>>

ConfiguredFormat(cfg) == FormatMapping(ConfigGet(cfg, "date_format", "YYYY-MM-DD"))

FallbacksParsing(date_str) ==
    {n \in DOMAIN FallbackFormats : Strptime(date_str, FallbackFormats[n]).ok}

\* the date the claim expects
ExpectedDate(cfg, date_str) ==
    IF Strptime(date_str, ConfiguredFormat(cfg)).ok
    THEN StrftimeDMY(Strptime(date_str, ConfiguredFormat(cfg)))
    ELSE IF FallbacksParsing(date_str) = {} THEN date_str
    ELSE LET first == CHOOSE n \in FallbacksParsing(date_str) :
                          \A m \in FallbacksParsing(date_str) : n <= m
         IN  StrftimeDMY(Strptime(date_str, FallbackFormats[first]))

\* C15: the date transformation never fails: a string that parses under the
\* configured format is rendered DD/MM/YYYY, else the first fallback format
\* it parses under decides, else it is returned unchanged.
C15_DatesNeverFail ==
    (Called(converted) /\ kind = "date_format") =>
        /\ converted.exc = "none"
        /\ converted.val.t = "str"
        /\ converted.val.v = ExpectedDate(mapper.config, raw)
        /\ (raw = <<"2025", "-", "09", "-", "17">>
            /\ ConfigGet(mapper.config, "date_format", "YYYY-MM-DD") = "YYYY-MM-DD")
           => converted.val.v = <<"17", "/", "09", "/", "2025">>

\* a date that the configured format rejects and a fallback format parses
C15_Witness ==
    /\ Called(converted)
    /\ kind = "date_format"
    /\ raw = <<"3", "/", "12", "/", "2025">>
    /\ ~Strptime(raw, ConfiguredFormat(mapper.config)).ok
    /\ converted.val.v = <<"03", "/", "12", "/", "2025">>

(***************************************************************************)
(* Properties of the field rules.                                          *)
(***************************************************************************)
\* the rule reaches none of the blocks that come before the one it is for
NotLiteral(r) ==
    /\ r.t = "dict"
    /\ ~HasKey(r, <<"static_value">>)
    /\ ~HasKey(r, <<"dynamic_value">>)

IsLegRoleValue(r) ==
    /\ NotLiteral(r)
    /\ HasKey(r, <<"receive_leg">>)
    /\ HasKey(r, <<"pay_leg">>)
    /\ Len(r.v) = 2

\* C11: a rule giving a receive_leg value and a pay_leg value resolves to
\* exactly one of its two literals: the receive value when the leg being
\* built is the receive leg, the pay value when it is the pay leg.
C11_RoleRuleGivesOneLiteral ==
    (Called(resolved) /\ IsLegRoleValue(rule)) =>
        /\ resolved.exc = "none"
        /\ SameValue(resolved.val,
                     GetKey(rule, IF context.is_receive THEN <<"receive_leg">>
                                  ELSE <<"pay_leg">>))

\* the name of a field of the leg being built
CellOf(template) == Replace(template, "{idx}", StrPiece(context.leg_idx))

IsPrimaryFallback(r) ==
    /\ NotLiteral(r)
    /\ ~HasKey(r, <<"source_field">>)
    /\ ~HasKey(r, <<"calculation_type">>)
    /\ HasKey(r, <<"source_fields">>)
    /\ GetKey(r, <<"source_fields">>).t = "dict"
    /\ HasKey(GetKey(r, <<"source_fields">>), <<"primary">>)
    /\ HasKey(GetKey(r, <<"source_fields">>), <<"fallback">>)

PrimaryCell == CellOf(GetKey(GetKey(rule, <<"source_fields">>), <<"primary">>).v)
FallbackCell == CellOf(GetKey(GetKey(rule, <<"source_fields">>), <<"fallback">>).v)

NonEmpty(outcome) ==
    /\ outcome.exc = "none"
    /\ ~IsNone(outcome.val)
    /\ outcome.val.t = "str" => outcome.val.v # <<>>

SameOutcome(a, b) == a.exc = b.exc /\ (a.exc = "none" => SameValue(a.val, b.val))

\* the primary field is present and non-empty after the transformation
PrimaryUsable ==
    /\ PrimaryCell \in DOMAIN record
    /\ NonEmpty(Transformed(mapper, rule, record[PrimaryCell]))

\* C13: a primary/fallback rule uses the primary field when it is present
\* and non-empty after the transformation; in every other case it uses the
\* fallback field, with the transformation applied to it; the resolution
\* fails only when both fields are absent from the record.
C13_PrimaryThenFallback ==
    (Called(resolved) /\ IsPrimaryFallback(rule)) =>
        /\ PrimaryUsable =>
               SameOutcome(resolved, Transformed(mapper, rule, record[PrimaryCell]))
        /\ (~PrimaryUsable /\ FallbackCell \in DOMAIN record) =>
               SameOutcome(resolved, Transformed(mapper, rule, record[FallbackCell]))
        /\ Raised(resolved) =>
               (PrimaryCell \notin DOMAIN record /\ FallbackCell \notin DOMAIN record)

IsPeriodCalculation(r) ==
    /\ NotLiteral(r)
    /\ ~HasKey(r, <<"source_field">>)
    /\ HasKey(r, <<"source_fields">>)
    /\ HasKey(r, <<"calculation_type">>)

PeriodCell(name) ==
    CellOf(GetKey(GetKey(rule, <<"source_fields">>), <<name>>).v)

\* years, months and days are read as integers
ReadsIntegers ==
    \A name \in {"years", "months", "days"} :
        /\ PeriodCell(name) \in DOMAIN record
        /\ IsDigits(record[PeriodCell(name)])

Number(name) == DigitsValue(record[PeriodCell(name)], 1, 0)

AllZero == Number("years") = 0 /\ Number("months") = 0 /\ Number("days") = 0

Marker ==
    IF SameValue(GetKey(rule, <<"calculation_type">>), Str("payment_frequency"))
    THEN Str("ATMATURITY") ELSE Str("TERM")

\* C16: a period calculation returns the full-term marker, 'ATMATURITY' for
\* a payment-frequency calculation and 'TERM' for a tenor calculation,
\* whenever years >= 25, whatever months, days and the dates are, and
\* whenever years, months and days are all zero.
C16_FullTermMarker ==
    (/\ Called(resolved)
     /\ IsPeriodCalculation(rule)
     /\ ReadsIntegers
     /\ (Number("years") >= 25 \/ AllZero)) =>
        /\ resolved.exc = "none"
        /\ SameValue(resolved.val, Marker)

\* thirty years with months, days and the dates of a shorter trade
C16_Witness ==
    /\ Called(resolved)
    /\ IsPeriodCalculation(rule)
    /\ ReadsIntegers
    /\ Number("years") = 30
    /\ Number("months") = 6
    /\ Number("days") = 17
    /\ HasKey(GetKey(rule, <<"source_fields">>), <<"start_date">>)
    /\ PeriodCell("end_date") \in DOMAIN record
    /\ SameValue(resolved.val, Str("ATMATURITY"))

DatesConfigured ==
    /\ HasKey(GetKey(rule, <<"source_fields">>), <<"start_date">>)
    /\ HasKey(GetKey(rule, <<"source_fields">>), <<"end_date">>)

\* the months from the start of the trade to its end
SpanMonths(start_dt, end_dt) ==
    (end_dt.year - start_dt.year) * 12 + (end_dt.month - start_dt.month)

\* both dates are read and the period reaches the span of the trade less
\* one month
SpanCheckMet ==
    /\ PeriodCell("start_date") \in DOMAIN record
    /\ PeriodCell("end_date") \in DOMAIN record
    /\ Strptime(record[PeriodCell("start_date")], FmtYMDdash).ok
    /\ Strptime(record[PeriodCell("end_date")], FmtYMDdash).ok
    /\ Number("years") * 12 + Number("months")
         >= SpanMonths(Strptime(record[PeriodCell("start_date")], FmtYMDdash),
                       Strptime(record[PeriodCell("end_date")], FmtYMDdash)) - 1

OneUnit ==
    IF Number("years") > 0 THEN PyStr(<<ToString(Number("years")), "Y">>)
    ELSE IF Number("months") > 0 THEN PyStr(<<ToString(Number("months")), "M">>)
    ELSE PyStr(<<ToString(Number("days")), "D">>)

IsSourceField(r) ==
    /\ NotLiteral(r)
    /\ HasKey(r, <<"source_field">>)
    /\ ~HasKey(r, <<"fallback_source">>)
    /\ GetKey(r, <<"source_field">>).t = "str"

\* the leg assignments of row n
AssignmentsOfRow(n) == _determine_leg_assignments(mapper.config, rows[n]).val

\* the part of the trade a rule of the section writes to
Target(trade, assignments, where) ==
    CASE where = "header" -> GetKey(trade, <<"header">>)
      [] where = "receive" -> LegsOf(trade)[1]
      [] OTHER -> LegsOf(trade)[IF IsNone(assignments.receive_leg_source) THEN 1 ELSE 2]

\* the field a SourceField rule resolves to, for row n
ResolvedField(r, n, ctx) ==
    _resolve_field_template(GetKey(r, <<"source_field">>).v, AssignmentsOfRow(n), ctx)

\* rule r under the name given, resolved for row n: absent field, no trade;
\* present field, its transformed value in the trade
SourceFieldHolds(name, r, n, ctx, where) ==
    IF ResolvedField(r, n, ctx) \notin DOMAIN rows[n] THEN IsNone(returned[n])
    ELSE ~IsNone(returned[n]) =>
           /\ HasKey(Target(returned[n], AssignmentsOfRow(n), where), name)
           /\ SameOutcome(
                  Ok(GetKey(Target(returned[n], AssignmentsOfRow(n), where), name)),
                  Transformed(mapper, r, rows[n][ResolvedField(r, n, ctx)]))

\* every SourceField rule of a section holds for row n
SectionHolds(section, n, ctx, where) ==
    \A k \in DOMAIN section.v :
        IsSourceField(section.v[k][2]) =>
            SourceFieldHolds(section.v[k][1], section.v[k][2], n, ctx, where)

\* C12: a SourceField rule whose resolved field is absent from the record
\* makes the transform of the whole record return None; when the field is
\* present, its value is returned after the optional transformation.
C12_MissingFieldSkipsRecord ==
    \A n \in DOMAIN returned :
        /\ SectionHolds(Section(mapper.config, "header_mappings"), n,
               [receive_leg_idx |-> AssignmentsOfRow(n).receive_leg_source], "header")
        /\ ~IsNone(AssignmentsOfRow(n).receive_leg_source) =>
               SectionHolds(Section(mapper.config, "leg_mappings"), n,
                   [leg_idx |-> AssignmentsOfRow(n).receive_leg_source,
                    is_receive |-> TRUE], "receive")
        /\ ~IsNone(AssignmentsOfRow(n).pay_leg_source) =>
               SectionHolds(Section(mapper.config, "leg_mappings"), n,
                   [leg_idx |-> AssignmentsOfRow(n).pay_leg_source,
                    is_receive |-> FALSE], "pay")

\* a file whose first record lacks the field of its second leg and is
\* skipped, and whose second record has it and carries it as an integer
C12_Witness ==
    /\ pc = "done"
    /\ Len(rows) = 2
    /\ HasKey(Section(mapper.config, "leg_mappings"), <<"x">>)
    /\ IsSourceField(GetKey(Section(mapper.config, "leg_mappings"), <<"x">>))
    /\ HasKey(GetKey(Section(mapper.config, "leg_mappings"), <<"x">>),
              <<"transformation">>)
    /\ LegField("1", "x") \notin DOMAIN rows[1]
    /\ IsNone(returned[1])
    /\ ~IsNone(returned[2])
    /\ Len(LegsOf(returned[2])) = 2
    /\ SameValue(GetKey(LegsOf(returned[2])[2], <<"x">>), PyInt(2))

SameResult(a, b) == (IsNone(a) /\ IsNone(b)) \/ SameValue(a, b)

\* C20: transforming a record leaves the loaded configuration and the raw
\* records unchanged, and equal records give equal results whatever was
\* transformed before them.
C20_RecordsAreIndependent ==
    [][/\ mapper' = mapper
       /\ rows' = rows
       /\ \A n \in DOMAIN returned' : \A m \in DOMAIN returned' :
              rows[n] = rows[m] => SameResult(returned'[n], returned'[m])]_vars

\* the same record transformed twice in one run
C20_Witness ==
    /\ pc = "done"
    /\ Len(rows) = 2
    /\ rows[1] = rows[2]
    /\ ~IsNone(returned[1])
    /\ SameValue(returned[1], returned[2])
    /\ Len(LegsOf(returned[2])) = 2

\* an index of a role: absent, 0 or 1
IsRoleIndex(x) == IsNone(x) \/ (x.t = "int" /\ x.v \in {0, 1})

\* the assignments fit a record whose two legs carry the code of one role
TieGoesToLegOne(assignments, tied, other) ==
    /\ ~IsNone(assignments[tied])
    /\ assignments[tied].v = 1
    /\ IsNone(assignments[other])

\* the trade has one leg, of the role, built from input leg 1
SingleLegFromLegOne(n, legId) ==
    /\ ~IsNone(returned[n])
    /\ Len(LegsOf(returned[n])) = 1
    /\ LegMappingsKeepFixedFields(mapper.config) =>
           LegId(LegsOf(returned[n])[1]) = Str(legId)
    /\ BuiltFrom(mapper.config, LegsOf(returned[n])[1], rows[n], 1)

BothCarry(trade_row, code) == Carries(trade_row, 0, code) /\ Carries(trade_row, 1, code)

\* C27: when both physical legs carry the same role code, index 1 is the one
\* assigned to that role, the other role's index stays absent, and the trade
\* is produced with the single leg built from input leg 1; in every case
\* each role index is absent, 0 or 1 and no index is assigned to both roles.
C27_TieGoesToTheLaterLeg ==
    \A n \in DOMAIN returned :
        /\ IsRoleIndex(AssignmentsOfRow(n).receive_leg_source)
        /\ IsRoleIndex(AssignmentsOfRow(n).pay_leg_source)
        /\ (~IsNone(AssignmentsOfRow(n).receive_leg_source)
            /\ ~IsNone(AssignmentsOfRow(n).pay_leg_source)) =>
               AssignmentsOfRow(n).receive_leg_source.v
                   # AssignmentsOfRow(n).pay_leg_source.v
        /\ BothCarry(rows[n], RoleCodes(mapper.config).receive) =>
               /\ TieGoesToLegOne(AssignmentsOfRow(n), "receive_leg_source",
                                  "pay_leg_source")
               /\ SourceFieldsPresent(rows[n]) => SingleLegFromLegOne(n, "Pata-Activa")
        /\ BothCarry(rows[n], RoleCodes(mapper.config).pay) =>
               /\ TieGoesToLegOne(AssignmentsOfRow(n), "pay_leg_source",
                                  "receive_leg_source")
               /\ SourceFieldsPresent(rows[n]) => SingleLegFromLegOne(n, "Pata-Pasiva")

(***************************************************************************)
(* Properties of the conditions.                                           *)
(***************************************************************************)
\* the condition string of the entry, '' when it has none
ConditionOf(condition_config) ==
    IF HasKey(condition_config, <<"condition">>)
    THEN CellOf(GetKey(condition_config, <<"condition">>).v) ELSE <<>>

\* where ' in [' stands in the condition
InMarks(cond) == {n \in DOMAIN cond : cond[n] = " in ["}

\* 'field in [literal,...]': one ' in [', the field before it, the quoted
\* literals after it
IsInForm(cond) == Cardinality(InMarks(cond)) = 1
InField(cond) == SubSeq(cond, 1, (CHOOSE n \in InMarks(cond) : TRUE) - 1)
InLiterals(cond) ==
    Range(FindQuoted(SubSeq(cond, (CHOOSE n \in InMarks(cond) : TRUE) + 1, Len(cond)), 1))

\* 'field is not empty'
IsNotEmptyForm(cond) == InMarks(cond) = {} /\ " is not empty" \in Range(cond)
NotEmptyField(cond) == SelectSeq(cond, LAMBDA piece : piece # " is not empty")

\* what the condition is worth on the record
Holds(cond) ==
    IF IsInForm(cond)
    THEN InField(cond) \in DOMAIN record /\ record[InField(cond)] \in InLiterals(cond)
    ELSE IF IsNotEmptyForm(cond)
    THEN NotEmptyField(cond) \in DOMAIN record /\ record[NotEmptyField(cond)] # <<>>
    ELSE FALSE

\* C25: _check_condition never raises, for any condition string: 'field in
\* [literal,...]' is true iff the record's value of the field is one of the
\* literals, 'field is not empty' is true iff the field is present and not
\* the empty string, every other condition is false.
C25_ConditionsNeverRaise ==
    Called(resolved) =>
        /\ resolved.exc = "none"
        /\ resolved.val.t = "bool"
        /\ (IsInForm(ConditionOf(rule)) \/ InMarks(ConditionOf(rule)) = {}) =>
               resolved.val.v = Holds(ConditionOf(rule))

(***************************************************************************)
(* Properties of the references.                                           *)
(***************************************************************************)
IsReference(r) ==
    /\ NotLiteral(r)
    /\ ~HasKey(r, <<"source_field">>)
    /\ ~HasKey(r, <<"source_fields">>)
    /\ ~HasKey(r, <<"fallback_source">>)
    /\ HasKey(r, <<"reference_field">>)
    /\ GetKey(r, <<"reference_field">>).t = "str"

\* the parts of the dot path of the rule
PathOf(r) == SplitDots(GetKey(r, <<"reference_field">>).v, 1, <<>>)

RECURSIVE Resolves(_, _, _)
\* the path leads somewhere in the object, from part n on
Resolves(object, parts, n) ==
    IF n > Len(parts) THEN TRUE
    ELSE /\ object.t = "dict"
         /\ HasKey(object, parts[n])
         /\ Resolves(GetKey(object, parts[n]), parts, n + 1)

\* the fields of the leg that the first k items of the mappings built
BuiltBy(leg, mappings, k) ==
    PyDict(SelectSeq(leg.v,
               LAMBDA item : \E j \in 1..k : mappings.v[j][1] = item[1]))

LegMappings == Section(mapper.config, "leg_mappings")
ConditionalLegMappings == Section(mapper.config, "conditional_leg_mappings")

\* the conditional mappings whose condition the record meets
MetConditions ==
    {c \in DOMAIN ConditionalLegMappings.v :
        /\ ~Raised(ConditionMet(ConditionalLegMappings.v[c][2], record, context.leg_idx))
        /\ ConditionMet(ConditionalLegMappings.v[c][2], record, context.leg_idx).val}

\* the reference rules of the leg being built, each with the name of its
\* field and the leg object built before it
ReferencesOfLeg(leg) ==
    {[name |-> LegMappings.v[k][1], r |-> LegMappings.v[k][2],
      before |-> BuiltBy(leg, LegMappings, k - 1)] :
        k \in {k \in DOMAIN LegMappings.v : IsReference(LegMappings.v[k][2])}}
    \cup UNION {
        {[name |-> ConditionalFields(ConditionalLegMappings.v[c][2]).v[k][1],
          r |-> ConditionalFields(ConditionalLegMappings.v[c][2]).v[k][2],
          before |-> BuiltBy(leg, LegMappings, Len(LegMappings.v))] :
            k \in {k \in DOMAIN ConditionalFields(ConditionalLegMappings.v[c][2]).v :
                      IsReference(ConditionalFields(ConditionalLegMappings.v[c][2]).v[k][2])}}
        : c \in MetConditions}

\* C22: a reference rule whose dot path names a field built earlier in the
\* same pass resolves to the value of that field, in leg_mappings as well as
\* in conditional_leg_mappings.
C22_ReferenceGivesTheBuiltField ==
    (Called(resolved) /\ ~Raised(resolved)) =>
        \A ref \in ReferencesOfLeg(resolved.val) :
            Resolves(ref.before, PathOf(ref.r), 1) =>
                SameValue(GetKey(resolved.val, ref.name),
                          Navigate(ref.before, PathOf(ref.r), 1))

DefaultCenters == PyList(<<Str("CLSA")>>)

\* the source fields the leg mappings read are columns of the record
LegFieldsPresent ==
    \A k \in DOMAIN LegMappings.v :
        IsSourceField(LegMappings.v[k][2]) =>
            CellOf(GetKey(LegMappings.v[k][2], <<"source_field">>).v) \in DOMAIN record

\* C23: a reference rule whose dot path does not resolve in the leg object
\* never fails: it gives the default list holding the code 'CLSA', and the
\* leg is built.
C23_UnresolvedReferenceGivesDefault ==
    Called(resolved) =>
        /\ LegFieldsPresent => ~Raised(resolved)
        /\ ~Raised(resolved) =>
               \A ref \in ReferencesOfLeg(resolved.val) :
                   ~Resolves(ref.before, PathOf(ref.r), 1) =>
                       SameValue(GetKey(resolved.val, ref.name), DefaultCenters)

\* a leg with a reference to nothing among its leg mappings and another
\* among its conditional mappings
C23_Witness ==
    /\ Called(resolved)
    /\ ~Raised(resolved)
    /\ HasKey(resolved.val, <<"a">>)
    /\ HasKey(resolved.val, <<"y">>)
    /\ SameValue(GetKey(resolved.val, <<"y">>), DefaultCenters)
    /\ HasKey(resolved.val, <<"w">>)
    /\ SameValue(GetKey(resolved.val, <<"w">>), DefaultCenters)
    /\ \A ref \in ReferencesOfLeg(resolved.val) : ~Resolves(ref.before, PathOf(ref.r), 1)

(***************************************************************************)
(* Properties of the span test of the period calculation.                  *)
(***************************************************************************)
BothDatesParse ==
    /\ PeriodCell("start_date") \in DOMAIN record
    /\ PeriodCell("end_date") \in DOMAIN record
    /\ Strptime(record[PeriodCell("start_date")], FmtYMDdash).ok
    /\ Strptime(record[PeriodCell("end_date")], FmtYMDdash).ok

PeriodMonths == Number("years") * 12 + Number("months")

TradeMonths ==
    SpanMonths(Strptime(record[PeriodCell("start_date")], FmtYMDdash),
               Strptime(record[PeriodCell("end_date")], FmtYMDdash))

\* the span test is reached and both dates are read
SpanTestApplies ==
    /\ Called(resolved)
    /\ IsPeriodCalculation(rule)
    /\ ReadsIntegers
    /\ Number("years") < 25
    /\ ~AllZero
    /\ DatesConfigured
    /\ BothDatesParse

\* C24: with start and end dates configured and parsing (years < 25, the
\* period not all zero), the period calculation gives the full-term marker
\* exactly when years*12+months differs from the span of the trade in months
\* by at most 1, and otherwise renders a single unit.
C24_MarkerWithinOneMonth ==
    SpanTestApplies =>
        /\ resolved.exc = "none"
        /\ SameValue(resolved.val,
                     IF /\ PeriodMonths - TradeMonths <= 1
                        /\ TradeMonths - PeriodMonths <= 1
                     THEN Marker ELSE OneUnit)

\* C24, amended: the marker is given exactly when years*12+months is at
\* least the span of the trade in months less 1, a period longer than the
\* trade included; otherwise a single unit is rendered.
C24_MarkerFromSpanLessOne ==
    SpanTestApplies =>
        /\ resolved.exc = "none"
        /\ SameValue(resolved.val,
                     IF PeriodMonths >= TradeMonths - 1 THEN Marker ELSE OneUnit)

\* a period of thirty months in a trade of twenty-four
C24_Witness ==
    /\ SpanTestApplies
    /\ PeriodMonths = 30
    /\ TradeMonths = 24
    /\ SameValue(resolved.val, Marker)

(***************************************************************************)
(* Properties of the order of the rule kinds.                              *)
(***************************************************************************)
\* the rule carries the keys of the kind
Matches(variant, r) ==
    CASE variant = "StaticValue" -> HasKey(r, <<"static_value">>)
      [] variant = "DynamicValue" ->
             /\ HasKey(r, <<"dynamic_value">>)
             /\ SameValue(GetKey(r, <<"dynamic_value">>), Str("source_parameter"))
      [] variant = "SourceField" ->
             HasKey(r, <<"source_field">>) /\ ~HasKey(r, <<"fallback_source">>)
      [] variant = "SourceFieldsWithFallback" ->
             /\ HasKey(r, <<"source_fields">>)
             /\ GetKey(r, <<"source_fields">>).t = "dict"
             /\ HasKey(GetKey(r, <<"source_fields">>), <<"primary">>)
             /\ HasKey(GetKey(r, <<"source_fields">>), <<"fallback">>)
      [] variant = "PeriodCalculation" ->
             HasKey(r, <<"source_fields">>) /\ HasKey(r, <<"calculation_type">>)
      [] variant = "FallbackSource" -> HasKey(r, <<"fallback_source">>)
      [] variant = "ReferenceField" -> HasKey(r, <<"reference_field">>)
      [] variant = "NestedObject" ->
             ~\E key \in {<<"source_field">>, <<"static_value">>, <<"dynamic_value">>,
                          <<"source_fields">>} : HasKey(r, key)
      [] OTHER -> HasKey(r, <<"receive_leg">>)

\* the rule without one of its keys
Without(r, key) == PyDict(SelectSeq(r.v, LAMBDA item : item[1] # key))

\* what the rule gives when it is resolved as the kind, the other kinds not
\* consulted
ResolvedAs(variant) ==
    CASE variant = "StaticValue" -> StaticValueBranch(rule)
      [] variant = "DynamicValue" -> DynamicValueBranch(mapper, rule)
      [] variant = "SourceField" ->
             SourceFieldBranch(mapper, rule, record, AssignmentsOf(context), context)
      [] variant = "SourceFieldsWithFallback" ->
             SourceFieldsBranch(mapper, Without(rule, <<"calculation_type">>), record,
                                AssignmentsOf(context), context)
      [] variant = "PeriodCalculation" ->
             _calculate_period_value(GetKey(rule, <<"source_fields">>),
                 GetKey(rule, <<"calculation_type">>), record, context)
      [] variant = "FallbackSource" ->
             FallbackSourceBranch(rule, record, AssignmentsOf(context), context)
      [] variant = "ReferenceField" -> ReferenceFieldBranch(rule, context)
      [] variant = "NestedObject" ->
             NestedObject(mapper, rule, record, AssignmentsOf(context), context, 1,
                          PyDict(<<>>))
      [] OTHER -> LegRoleBranch(rule, context)

\* the first kind of the order that the rule matches
FirstMatch(order) ==
    order[CHOOSE n \in DOMAIN order :
              /\ Matches(order[n], rule)
              /\ \A m \in 1..(n - 1) : ~Matches(order[m], rule)]

\* the rule is resolved as the first kind of the order that it matches
ResolvesByOrder(order) ==
    (/\ Called(resolved)
     /\ rule.t = "dict"
     /\ \E n \in DOMAIN order : Matches(order[n], rule)) =>
        SameOutcome(resolved, ResolvedAs(FirstMatch(order)))

\* C26: rule resolution is a priority-ordered match, the first matching kind
\* wins, in the order StaticValue, DynamicValue, SourceField,
\* SourceFieldsWithFallback, PeriodCalculation, FallbackSource,
\* ReferenceField, NestedObject, LegRoleValue; the later kinds are never
\* consulted.
C26_FirstVariantWins ==
    ResolvesByOrder(<<"StaticValue", "DynamicValue", "SourceField",
                      "SourceFieldsWithFallback", "PeriodCalculation",
                      "FallbackSource", "ReferenceField", "NestedObject",
                      "LegRoleValue">>)

\* C26, amended: the order is StaticValue, DynamicValue, SourceField,
\* PeriodCalculation, SourceFieldsWithFallback, FallbackSource,
\* ReferenceField, NestedObject, LegRoleValue.
C26_PeriodBeforePrimaryFallback ==
    ResolvesByOrder(<<"StaticValue", "DynamicValue", "SourceField",
                      "PeriodCalculation", "SourceFieldsWithFallback",
                      "FallbackSource", "ReferenceField", "NestedObject",
                      "LegRoleValue">>)

\* a rule with a primary/fallback pair and a calculation type, on a record
\* that has the primary field and no period: resolved as a period, it fails
C26_Witness ==
    /\ Called(resolved)
    /\ rule.t = "dict"
    /\ Matches("SourceFieldsWithFallback", rule)
    /\ Matches("PeriodCalculation", rule)
    /\ PrimaryCell \in DOMAIN record
    /\ record[PrimaryCell] # <<>>
    /\ resolved.exc = "KeyError"

(***************************************************************************)
(* The three programs run from the command line: main and the __main__     *)
(* block of mapping_program, json_compare and json_pdf_report, over files  *)
(* that are there and parse, are missing, or do not parse.                 *)
(***************************************************************************)
MaxPairs == 2   \* file pairs find_matching_files returns to the PDF run

\* what open() and the parser find behind a path of the command line
FileStates == {"valid", "missing", "invalid"}

\* --config is a YAML file, --input a CSV file that is there or not
MappingRuns ==
    {[program |-> "mapping_program", config |-> config, input |-> input] :
        config \in FileStates, input \in {"valid", "missing"}}

JsonCompareRuns ==
    {[program |-> "json_compare", file1 |-> file1, file2 |-> file2] :
        file1 \in FileStates, file2 \in FileStates}

\* the pairs of a run whose two directories exist; none are looked for otherwise
FilePairs == SeqsUpTo(FileStates \X FileStates, MaxPairs)

JsonPdfReportRuns ==
    {[program |-> "json_pdf_report", banco_dir |-> banco_dir,
      contrato_dir |-> contrato_dir, file_pairs |-> file_pairs] :
        banco_dir \in BOOLEAN, contrato_dir \in BOOLEAN, file_pairs \in FilePairs}

\* the documents the valid JSON files of a diff run hold
MainDocs == {PyDict(<<>>), PyDict(<< <<KeyA, PyInt(1)>> >>)}

IsDiffRun(run) == run.program \in {"json_compare", "json_pdf_report"}

ReadsRows(run) ==
    run.program = "mapping_program" /\ run.config = "valid" /\ run.input = "valid"

MainInit ==
    /\ argv \in MappingRuns \cup JsonCompareRuns \cup JsonPdfReportRuns
    /\ exit_status = PyNone
    /\ pc = "main"
    /\ mapper \in IF ReadsRows(argv)
                  THEN {[config |-> cfg, source |-> "banco"] : cfg \in Configs}
                  ELSE {[config |-> [x \in {} |-> PyNone], source |-> "banco"]}
    /\ rows \in IF ReadsRows(argv) THEN InputFiles ELSE {<<>>}
    /\ idx = 1
    /\ returned = <<>>
    /\ transformed_trades = <<>>
    /\ log = <<>>
    /\ output = PyNone
    /\ json1 \in IF IsDiffRun(argv) THEN MainDocs ELSE {PyDict(<<>>)}
    /\ json2 \in IF IsDiffRun(argv) THEN MainDocs ELSE {PyDict(<<>>)}
    /\ FreshComparators
    /\ NoCalls

\* exit(main()): the value main returned is the exit status, None is 0
ExitWith(main_returned) == IF IsNone(main_returned) THEN PyInt(0) ELSE main_returned

\* main(): the value main returned is dropped and the interpreter ends with 0
ExitAfter(main_returned) == PyInt(0)

\* mapping_program.main up to the loop of transform_csv_to_json: the mapper
\* loads the config, _read_csv opens the input, and either raising ends main
MappingProgramMain ==
    /\ argv.program = "mapping_program"
    /\ pc = "main"
    /\ IF argv.config # "valid" \/ argv.input # "valid"
       THEN /\ exit_status' = ExitWith(PyInt(1))
            /\ pc' = "exited"
       ELSE /\ pc' = "loop"
            /\ UNCHANGED exit_status
    /\ UNCHANGED <<mapper, rows, idx, returned, transformed_trades, log, output>>
    /\ UNCHANGED argv
    /\ UNCHANGED diffVars
    /\ UNCHANGED callVars

\* mapping_program.main after transform_csv_to_json returned or raised
MappingProgramExit ==
    /\ argv.program = "mapping_program"
    /\ pc \in {"done", "raised"}
    /\ exit_status' = ExitWith(IF pc = "raised" THEN PyInt(1) ELSE PyInt(0))
    /\ pc' = "exited"
    /\ UNCHANGED <<mapper, rows, idx, returned, transformed_trades, log, output>>
    /\ UNCHANGED argv
    /\ UNCHANGED diffVars
    /\ UNCHANGED callVars

\* load_json_file(filepath) raises for a file that is missing or invalid
Loads(file) == file = "valid"

\* what json_compare.main returns
JsonCompareReturn(run) ==
    IF Loads(run.file1) /\ Loads(run.file2) THEN PyNone ELSE PyInt(1)

\* json_compare run as a program
JsonCompareMain ==
    /\ argv.program = "json_compare"
    /\ pc = "main"
    /\ IF Loads(argv.file1) /\ Loads(argv.file2)
       THEN /\ LET r == compare_jsons(json1, json2, translations, stats)
               IN  /\ differences' = r.differences
                   /\ stats' = r.stats
            /\ calls' = [calls EXCEPT !.cmp = @ + 1]
       ELSE UNCHANGED <<differences, stats, calls>>
    /\ exit_status' = ExitAfter(JsonCompareReturn(argv))
    /\ pc' = "exited"
    /\ UNCHANGED <<json1, json2, translations, pdfDifferences, pdfStats>>
    /\ UNCHANGED <<mapper, rows, idx, returned, transformed_trades, log, output>>
    /\ UNCHANGED argv
    /\ UNCHANGED callVars

\* the pairs of the loop in json_pdf_report.main that reach trade_results
Compared(run) ==
    {n \in DOMAIN run.file_pairs :
        Loads(run.file_pairs[n][1]) /\ Loads(run.file_pairs[n][2])}

\* what json_pdf_report.main returns
JsonPdfReportReturn(run) ==
    IF ~run.banco_dir THEN PyInt(1)
    ELSE IF ~run.contrato_dir THEN PyInt(1)
    ELSE IF run.file_pairs = <<>> THEN PyInt(1)
    ELSE IF Compared(run) = {} THEN PyInt(1)
    ELSE PyNone

\* json_pdf_report run as a program
JsonPdfReportMain ==
    /\ argv.program = "json_pdf_report"
    /\ pc = "main"
    /\ IF argv.banco_dir /\ argv.contrato_dir /\ Compared(argv) # {}
       THEN /\ LET r == pdf_compare_jsons(json1, json2, translations)
               IN  /\ pdfDifferences' = r.differences
                   /\ pdfStats' = r.stats
            /\ calls' = [calls EXCEPT !.pdf = @ + Cardinality(Compared(argv))]
       ELSE UNCHANGED <<pdfDifferences, pdfStats, calls>>
    /\ exit_status' = ExitAfter(JsonPdfReportReturn(argv))
    /\ pc' = "exited"
    /\ UNCHANGED <<json1, json2, translations, differences, stats>>
    /\ UNCHANGED <<mapper, rows, idx, returned, transformed_trades, log, output>>
    /\ UNCHANGED argv
    /\ UNCHANGED callVars

MainNext ==
    \/ MappingProgramMain
    \/ TransformRow
    \/ WriteJson
    \/ MappingProgramExit
    \/ JsonCompareMain
    \/ JsonPdfReportMain

SpecMain == MainInit /\ [][MainNext]_vars

Exited == ~IsNone(exit_status)

\* the run met an error it cannot recover from: a file of the mapping run or
\* of the two-file diff run that cannot be read, no comparison made by the
\* directory diff run
UnrecoverableError ==
    \/ /\ argv.program = "mapping_program"
       /\ (argv.config # "valid" \/ argv.input # "valid")
    \/ /\ argv.program = "json_compare"
       /\ (argv.file1 # "valid" \/ argv.file2 # "valid")
    \/ /\ argv.program = "json_pdf_report"
       /\ (~argv.banco_dir \/ ~argv.contrato_dir \/ Compared(argv) = {})

\* C21: a run of any of the three programs that met an unrecoverable I/O or
\* parse error ends with a non-zero exit status.
C21_ErrorsExitNonZero ==
    (Exited /\ UnrecoverableError) => exit_status.v # 0

====
